---- MODULE Spec2Model ----
(***************************************************************************)
(* mangit: the tag index of git working copies (src/storage.rs) and the    *)
(* command layer that loads, changes and saves it (src/main.rs).           *)
(*                                                                         *)
(* A path string is the sequence of its components; the component "/" in   *)
(* first position is the root, so <<"/", "r1">> is "/r1" and               *)
(* <<".", "r1">> is "./r1".  A tag is the sequence of its characters.      *)
(* A timestamp is a number of seconds on the UTC clock; a call reads the    *)
(* clock once.  A failure to create the mangit directory or to read the    *)
(* backing file is one I/O failure of Storage::new.                        *)
(***************************************************************************)
EXTENDS Integers, Sequences, FiniteSets, TLC

VARIABLES
    repos,      \* Storage.repos of the live Storage value: absolute path -> RepoAccess
    hist,       \* ghost: per tracked path, every timestamp recorded on its record
                \* since the record was created or last reset
    fs,         \* the directories that exist on disk (normalised absolute paths)
    file,       \* the backing file repos.json
    now,        \* the reading of Utc::now()
    last,       \* ghost: the last Storage call, its arguments and what it returned
    procs       \* the runs of the mangit binary: per process, where run() stands,
                \* its arguments and the Storage it holds

vars == <<repos, hist, fs, file, now, procs, last>>

(***************************************************************************)
(* Bounds of the exploration.                                              *)
(***************************************************************************)
MaxRecordedRank == 11   \* accesses recorded on one record in SpecRank
ScoreNow == 700000      \* the time at which SpecScore scores its records
MaxArgLen == 4          \* characters of the tags argument in SpecParse
MaxNow == 1             \* the clock runs from 0 to MaxNow
MaxRecorded == 12       \* accesses recorded on one record, one-path runs
MaxRecordedWide == 2    \* accesses recorded on one record, two-path runs
MaxStored == 11         \* timestamps of the record of the file SpecEdited starts from

(***************************************************************************)
(* Program constants.                                                      *)
(***************************************************************************)
MaxAccessTimes == 10

(***************************************************************************)
(* Strings of the inputs.                                                  *)
(***************************************************************************)
Root == "/"
Cwd == <<Root>>
K1 == <<Root, "r1">>
K2 == <<Root, "r2">>
RelK1 == <<"r1">>
RelDotK1 == <<".", "r1">>

tag_rust == <<"r", "u", "s", "t">>
tag_Rust == <<"R", "u", "s", "t">>
tag_cli == <<"c", "l", "i">>
tag_rus == <<"r", "u", "s">>
tag_rusty == <<"r", "u", "s", "t", "y">>

Dirs == {K1, K2}
NoPath == <<>>
NoTags == <<>>

\* str::to_lowercase, one character at a time
LowerChar(c) ==
    CASE c = "R" -> "r"
      [] c = "C" -> "c"
      [] OTHER -> c

to_lowercase(s) == [i \in 1..Len(s) |-> LowerChar(s[i])]

(***************************************************************************)
(* Paths.                                                                  *)
(***************************************************************************)
is_absolute(p) == Len(p) > 0 /\ p[1] = Root

\* the directory a path names: "." components name the directory they are in
RECURSIVE Normalize(_)
Normalize(p) ==
    IF p = <<>> THEN <<>>
    ELSE IF Head(p) = "." THEN Normalize(Tail(p))
    ELSE <<Head(p)>> \o Normalize(Tail(p))

path_exists(abs) == Normalize(abs) \in fs

\* Result<String>: cwd is env::current_dir(), NoPath when it cannot be determined
to_absolute_path(path, cwd) ==
    IF is_absolute(path) THEN [ok |-> TRUE, val |-> path]
    ELSE IF cwd = NoPath THEN [ok |-> FALSE, val |-> NoPath]
    ELSE [ok |-> TRUE, val |-> cwd \o path]

(***************************************************************************)
(* RepoAccess.                                                             *)
(***************************************************************************)
RepoAccess_new(tags, t) == [tags |-> tags, access_times |-> <<t>>]

\* Vec::split_off(at): the elements from index at (0-based) to the end
split_off(s, at) == SubSeq(s, at + 1, Len(s))

\* faulty variants of RepoAccess::record_access: Vec::truncate(10) in place of split_off,
\* no cap at all, the new timestamp put first, and a push that is skipped at the cap
record_access_keep_first(r, t) ==
    LET pushed == Append(r.access_times, t)
    IN  [r EXCEPT !.access_times =
            IF Len(pushed) > MaxAccessTimes THEN SubSeq(pushed, 1, MaxAccessTimes) ELSE pushed]

record_access_no_cap(r, t) == [r EXCEPT !.access_times = Append(@, t)]

record_access_prepend(r, t) ==
    LET pushed == <<t>> \o r.access_times
    IN  [r EXCEPT !.access_times =
            IF Len(pushed) > MaxAccessTimes
            THEN split_off(pushed, Len(pushed) - MaxAccessTimes)
            ELSE pushed]

record_access_skip_when_full(r, t) ==
    [r EXCEPT !.access_times = IF Len(@) < MaxAccessTimes THEN Append(@, t) ELSE @]

RepoAccess_record_access(r, t) ==
    LET pushed == Append(r.access_times, t)
    IN  [r EXCEPT !.access_times =
            IF Len(pushed) > MaxAccessTimes
            THEN split_off(pushed, Len(pushed) - MaxAccessTimes)
            ELSE pushed]

\* faulty variant of RepoAccess::update_tags: the new tags are added to the old ones
update_tags_union(r, tags, t) == RepoAccess_record_access([r EXCEPT !.tags = @ \o tags], t)

\* faulty variant of RepoAccess::update_tags: a tag given twice is stored once
update_tags_dedup(r, tags, t) ==
    LET keep == {i \in 1..Len(tags) : \A j \in 1..(i - 1) : tags[j] # tags[i]}
        nth(n) == CHOOSE i \in keep : Cardinality({j \in keep : j < i}) = n - 1
    IN  [RepoAccess_record_access(r, t) EXCEPT
            !.tags = [n \in 1..Cardinality(keep) |-> tags[nth(n)]]]

update_tags(r, tags, t) == RepoAccess_record_access([r EXCEPT !.tags = tags], t)

\* faulty variant of RepoAccess::reset_frequency: keeps the newest old timestamp
reset_frequency_keep_newest(r, t) ==
    [r EXCEPT !.access_times = SubSeq(@, Len(@), Len(@))]

RepoAccess_reset_frequency(r, t) == [r EXCEPT !.access_times = <<t>>]

Minute == 60
Hour == 3600

\* faulty variant of the tier table: the weights in the reverse order
weight_ascending(age) ==
    IF age < 1 * Minute THEN 10
    ELSE IF age < 30 * Minute THEN 20
    ELSE IF age < 1 * Hour THEN 40
    ELSE IF age < 24 * Hour THEN 60
    ELSE IF age < (24 * 7) * Hour THEN 80
    ELSE 100

\* faulty variant of the tier table: the upper bound of a tier is inclusive
weight_inclusive(age) ==
    IF age <= 1 * Minute THEN 100
    ELSE IF age <= 30 * Minute THEN 80
    ELSE IF age <= 1 * Hour THEN 60
    ELSE IF age <= 24 * Hour THEN 40
    ELSE IF age <= (24 * 7) * Hour THEN 20
    ELSE 10

weight(age) ==
    IF age < 1 * Minute THEN 100
    ELSE IF age < 30 * Minute THEN 80
    ELSE IF age < 1 * Hour THEN 60
    ELSE IF age < 24 * Hour THEN 40
    ELSE IF age < (24 * 7) * Hour THEN 20
    ELSE 10

RECURSIVE SumWeights(_, _)
SumWeights(times, t) ==
    IF times = <<>> THEN 0
    ELSE weight(t - Head(times)) + SumWeights(Tail(times), t)

\* faulty variant of RepoAccess::calculate_frecency: the weight of the newest
\* timestamp alone
frecency_newest_only(r, t) ==
    IF r.access_times = <<>> THEN 0
    ELSE weight(t - r.access_times[Len(r.access_times)])

calculate_frecency(r, t) == SumWeights(r.access_times, t)

(***************************************************************************)
(* HashMap<String, RepoAccess> as a function on the set of its keys.       *)
(***************************************************************************)
EmptyMap == <<>>

Insert(m, k, v) == [x \in DOMAIN m \cup {k} |-> IF x = k THEN v ELSE m[x]]

Remove(m, k) == [x \in DOMAIN m \ {k} |-> m[x]]

Retain(m, keep) == [x \in DOMAIN m \cap keep |-> m[x]]

\* the orders in which a HashMap may hand out the keys S
IterOrders(S) ==
    {o \in [1..Cardinality(S) -> S] : \A i, j \in 1..Cardinality(S) : o[i] = o[j] => i = j}

(***************************************************************************)
(* Storage: each operation maps the map it is given to what it returns     *)
(* (err is "" for Ok) and the map it leaves, key being the absolute path   *)
(* it addressed.                                                           *)
(***************************************************************************)
Outcome(err, ret, rs, key) == [err |-> err, ret |-> ret, repos |-> rs, key |-> key]

\* faulty variant of Storage::add_repo: the path is not checked on disk
add_repo_unchecked(rs, path, tags, cwd, t) ==
    LET abs == to_absolute_path(path, cwd)
    IN  IF ~abs.ok THEN Outcome("PathResolution", FALSE, rs, NoPath)
        ELSE LET is_new == abs.val \notin DOMAIN rs
             IN  Outcome("", is_new,
                         IF is_new
                         THEN Insert(rs, abs.val, RepoAccess_new(tags, t))
                         ELSE [rs EXCEPT ![abs.val] = update_tags(@, tags, t)],
                         abs.val)

add_repo(rs, path, tags, cwd, t) ==
    LET abs == to_absolute_path(path, cwd)
    IN  IF ~abs.ok THEN Outcome("PathResolution", FALSE, rs, NoPath)
        ELSE IF ~path_exists(abs.val) THEN Outcome("PathNotFound", FALSE, rs, abs.val)
        ELSE LET is_new == abs.val \notin DOMAIN rs
             IN  Outcome("", is_new,
                         IF is_new
                         THEN Insert(rs, abs.val, RepoAccess_new(tags, t))
                         ELSE [rs EXCEPT ![abs.val] = update_tags(@, tags, t)],
                         abs.val)

\* faulty variant of Storage::delete_repo: Ok(true) whether or not a record was removed
delete_repo_always_true(rs, path, cwd) ==
    LET abs == to_absolute_path(path, cwd)
    IN  IF ~abs.ok THEN Outcome("PathResolution", FALSE, rs, NoPath)
        ELSE Outcome("", TRUE, Remove(rs, abs.val), abs.val)

\* faulty variant of Storage::delete_repo: Ok(true) for a tracked path, whose record
\* stays in the map
delete_repo_keep_record(rs, path, cwd) ==
    LET abs == to_absolute_path(path, cwd)
    IN  IF ~abs.ok THEN Outcome("PathResolution", FALSE, rs, NoPath)
        ELSE Outcome("", abs.val \in DOMAIN rs, rs, abs.val)

delete_repo(rs, path, cwd) ==
    LET abs == to_absolute_path(path, cwd)
    IN  IF ~abs.ok THEN Outcome("PathResolution", FALSE, rs, NoPath)
        ELSE Outcome("", abs.val \in DOMAIN rs, Remove(rs, abs.val), abs.val)

\* faulty variant of Storage::update_repo: an untracked path gets a record (an upsert)
update_repo_upsert(rs, path, tags, cwd, t) ==
    LET abs == to_absolute_path(path, cwd)
    IN  IF ~abs.ok THEN Outcome("PathResolution", FALSE, rs, NoPath)
        ELSE IF abs.val \in DOMAIN rs
        THEN Outcome("", TRUE, [rs EXCEPT ![abs.val] = update_tags(@, tags, t)], abs.val)
        ELSE Outcome("", FALSE, Insert(rs, abs.val, RepoAccess_new(tags, t)), abs.val)

update_repo(rs, path, tags, cwd, t) ==
    LET abs == to_absolute_path(path, cwd)
    IN  IF ~abs.ok THEN Outcome("PathResolution", FALSE, rs, NoPath)
        ELSE IF abs.val \in DOMAIN rs
        THEN Outcome("", TRUE, [rs EXCEPT ![abs.val] = update_tags(@, tags, t)], abs.val)
        ELSE Outcome("", FALSE, rs, abs.val)

\* faulty variant of Storage::record_access: a path that is not tracked is an error
record_access_err_untracked(rs, path, cwd, t) ==
    LET abs == to_absolute_path(path, cwd)
    IN  IF ~abs.ok THEN Outcome("PathResolution", FALSE, rs, NoPath)
        ELSE IF abs.val \in DOMAIN rs
        THEN Outcome("", TRUE, [rs EXCEPT ![abs.val] = RepoAccess_record_access(@, t)], abs.val)
        ELSE Outcome("NotFound", FALSE, rs, abs.val)

record_access(rs, path, cwd, t) ==
    LET abs == to_absolute_path(path, cwd)
    IN  IF ~abs.ok THEN Outcome("PathResolution", FALSE, rs, NoPath)
        ELSE IF abs.val \in DOMAIN rs
        THEN Outcome("", TRUE, [rs EXCEPT ![abs.val] = RepoAccess_record_access(@, t)], abs.val)
        ELSE Outcome("", FALSE, rs, abs.val)

\* reset_frequency(Some(path))
reset_frequency(rs, path, cwd, t) ==
    LET abs == to_absolute_path(path, cwd)
    IN  IF ~abs.ok THEN Outcome("PathResolution", 0, rs, NoPath)
        ELSE IF abs.val \in DOMAIN rs
        THEN Outcome("", 1, [rs EXCEPT ![abs.val] = RepoAccess_reset_frequency(@, t)], abs.val)
        ELSE Outcome("", 0, rs, abs.val)

\* faulty variant of reset_frequency(None): only histories longer than one entry are reset
\* and counted
reset_frequency_all_changed_only(rs, t) ==
    LET long == {k \in DOMAIN rs : Len(rs[k].access_times) > 1}
    IN  Outcome("", Cardinality(long),
                [k \in DOMAIN rs |->
                    IF k \in long THEN RepoAccess_reset_frequency(rs[k], t) ELSE rs[k]],
                NoPath)

\* reset_frequency(None)
reset_frequency_all(rs, t) ==
    LET count == Cardinality(DOMAIN rs)
    IN  Outcome("", count, [k \in DOMAIN rs |-> RepoAccess_reset_frequency(rs[k], t)], NoPath)

\* faulty variant of the filter of search_by_tag: a tag that starts with the query
\* (str::starts_with in place of ==)
has_tag_prefix(r, tag) ==
    \E i \in 1..Len(r.tags) :
        /\ Len(tag) <= Len(r.tags[i])
        /\ SubSeq(to_lowercase(r.tags[i]), 1, Len(tag)) = tag

has_tag(r, tag) == \E i \in 1..Len(r.tags) : to_lowercase(r.tags[i]) = tag

\* faulty variant of the filter of search_by_tag: the first record that passes only
\* (Iterator::find in place of filter)
RECURSIVE filter_matches_first(_, _, _)
filter_matches_first(rs, order, tag) ==
    IF order = <<>> THEN <<>>
    ELSE IF has_tag(rs[Head(order)], tag) THEN <<Head(order)>>
    ELSE filter_matches_first(rs, Tail(order), tag)

\* the keys of order whose record passes the filter, in that order
RECURSIVE filter_matches(_, _, _)
filter_matches(rs, order, tag) ==
    IF order = <<>> THEN <<>>
    ELSE (IF has_tag(rs[Head(order)], tag) THEN <<Head(order)>> ELSE <<>>)
         \o filter_matches(rs, Tail(order), tag)

\* faulty variant of the sort: the comparator a.1.partial_cmp(&b.1), score ascending
RECURSIVE sort_by_score_asc(_)
sort_by_score_asc(ms) ==
    IF ms = <<>> THEN <<>>
    ELSE LET n == Len(ms)
             x == ms[n]
             sorted == sort_by_score_asc(SubSeq(ms, 1, n - 1))
             ahead == Cardinality({i \in 1..(n - 1) : sorted[i].score <= x.score})
         IN  SubSeq(sorted, 1, ahead) \o <<x>> \o SubSeq(sorted, ahead + 1, n - 1)

\* faulty variant of the sort: the matches are left as the iterator collected them
sort_by_score_skipped(ms) == ms

\* slice::sort_by with the comparator b.1.partial_cmp(&a.1): stable, score descending
RECURSIVE sort_by_score_desc(_)
sort_by_score_desc(ms) ==
    IF ms = <<>> THEN <<>>
    ELSE LET n == Len(ms)
             x == ms[n]
             sorted == sort_by_score_desc(SubSeq(ms, 1, n - 1))
             ahead == Cardinality({i \in 1..(n - 1) : sorted[i].score >= x.score})
         IN  SubSeq(sorted, 1, ahead) \o <<x>> \o SubSeq(sorted, ahead + 1, n - 1)

\* faulty variant of Storage::search_by_tag: a match is scored before its access is
\* recorded
search_by_tag_score_first(rs, tag_arg, order, t) ==
    LET tag == to_lowercase(tag_arg)
        hit == filter_matches(rs, order, tag)
        hitSet == {hit[i] : i \in 1..Len(hit)}
        rs2 == [k \in DOMAIN rs |->
                   IF k \in hitSet THEN RepoAccess_record_access(rs[k], t) ELSE rs[k]]
        matches == [i \in 1..Len(hit) |->
                       [path |-> hit[i], score |-> calculate_frecency(rs[hit[i]], t)]]
        sorted == sort_by_score_desc(matches)
    IN  Outcome("", [i \in 1..Len(sorted) |-> sorted[i].path], rs2, NoPath)

\* faulty variant of Storage::search_by_tag: the access is recorded on every record
\* the iterator visits, before the filter
search_by_tag_record_all(rs, tag_arg, order, t) ==
    LET tag == to_lowercase(tag_arg)
        hit == filter_matches(rs, order, tag)
        rs2 == [k \in DOMAIN rs |-> RepoAccess_record_access(rs[k], t)]
        matches == [i \in 1..Len(hit) |->
                       [path |-> hit[i], score |-> calculate_frecency(rs2[hit[i]], t)]]
        sorted == sort_by_score_desc(matches)
    IN  Outcome("", [i \in 1..Len(sorted) |-> sorted[i].path], rs2, NoPath)

\* order is the order in which iter_mut() visits the map
search_by_tag(rs, tag_arg, order, t) ==
    LET tag == to_lowercase(tag_arg)
        hit == filter_matches(rs, order, tag)
        hitSet == {hit[i] : i \in 1..Len(hit)}
        rs2 == [k \in DOMAIN rs |->
                   IF k \in hitSet THEN RepoAccess_record_access(rs[k], t) ELSE rs[k]]
        matches == [i \in 1..Len(hit) |->
                       [path |-> hit[i], score |-> calculate_frecency(rs2[hit[i]], t)]]
        sorted == sort_by_score_desc(matches)
    IN  Outcome("", [i \in 1..Len(sorted) |-> sorted[i].path], rs2, NoPath)

\* faulty variant of Storage::cleanup: every record is retained
cleanup_none(rs) == Retain(rs, DOMAIN rs)

\* faulty variant of Storage::cleanup: the test of retain is inverted
cleanup_inverted(rs) == Retain(rs, {k \in DOMAIN rs : ~path_exists(k)})

cleanup(rs) == Retain(rs, {k \in DOMAIN rs : path_exists(k)})

(***************************************************************************)
(* The backing file: absent, a JSON document, or bytes that do not parse.  *)
(* A document is the set of the members of its "repos" object.             *)
(***************************************************************************)
AbsentFile == [kind |-> "absent", doc |-> {}, hist |-> EmptyMap]
CorruptFile == [kind |-> "corrupt", doc |-> {}, hist |-> EmptyMap]

\* faulty variant of the serialisation: of each record only the oldest timestamp
to_json_oldest_only(rs) ==
    {[path |-> k, tags |-> rs[k].tags, access_times |-> <<rs[k].access_times[1]>>] :
        k \in DOMAIN rs}

to_json(rs) ==
    {[path |-> k, tags |-> rs[k].tags, access_times |-> rs[k].access_times] : k \in DOMAIN rs}

\* faulty variant of the parse: the timestamps of a record come out newest first
from_json_reversed(doc) ==
    [k \in {e.path : e \in doc} |->
        LET e == CHOOSE e \in doc : e.path = k
            n == Len(e.access_times)
        IN  [tags |-> e.tags,
             access_times |-> [i \in 1..n |-> e.access_times[n + 1 - i]]]]

\* faulty variant of the parse: a history longer than the cap is cut to its newest
\* MaxAccessTimes entries
from_json_capped(doc) ==
    [k \in {e.path : e \in doc} |->
        LET e == CHOOSE e \in doc : e.path = k
            n == Len(e.access_times)
        IN  [tags |-> e.tags,
             access_times |-> IF n > MaxAccessTimes
                              THEN SubSeq(e.access_times, n - MaxAccessTimes + 1, n)
                              ELSE e.access_times]]

from_json(doc) ==
    [k \in {e.path : e \in doc} |->
        LET e == CHOOSE e \in doc : e.path = k
        IN  [tags |-> e.tags, access_times |-> e.access_times]]

\* faulty variant of Storage::new: a file that does not parse gives the empty Storage
Storage_new_corrupt_is_empty(f, io_ok) ==
    IF ~io_ok THEN Outcome("Io", FALSE, EmptyMap, NoPath)
    ELSE IF f.kind = "absent" THEN Outcome("", TRUE, EmptyMap, NoPath)
    ELSE IF f.kind = "corrupt" THEN Outcome("", TRUE, EmptyMap, NoPath)
    ELSE Outcome("", TRUE, cleanup(from_json(f.doc)), NoPath)

\* faulty variant of Storage::new: a file that is absent is an error
Storage_new_absent_is_error(f, io_ok) ==
    IF ~io_ok THEN Outcome("Io", FALSE, EmptyMap, NoPath)
    ELSE IF f.kind = "absent" THEN Outcome("NotFound", FALSE, EmptyMap, NoPath)
    ELSE IF f.kind = "corrupt" THEN Outcome("Parse", FALSE, EmptyMap, NoPath)
    ELSE Outcome("", TRUE, cleanup(from_json(f.doc)), NoPath)

\* faulty variant of Storage::new: the Storage is returned as it was parsed
Storage_new_no_cleanup(f, io_ok) ==
    IF ~io_ok THEN Outcome("Io", FALSE, EmptyMap, NoPath)
    ELSE IF f.kind = "absent" THEN Outcome("", TRUE, EmptyMap, NoPath)
    ELSE IF f.kind = "corrupt" THEN Outcome("Parse", FALSE, EmptyMap, NoPath)
    ELSE Outcome("", TRUE, from_json(f.doc), NoPath)

\* Storage::new: io_ok is false when creating the directory or reading the file fails
Storage_new(f, io_ok) ==
    IF ~io_ok THEN Outcome("Io", FALSE, EmptyMap, NoPath)
    ELSE IF f.kind = "absent" THEN Outcome("", TRUE, EmptyMap, NoPath)
    ELSE IF f.kind = "corrupt" THEN Outcome("Parse", FALSE, EmptyMap, NoPath)
    ELSE Outcome("", TRUE, cleanup(from_json(f.doc)), NoPath)

\* Storage::save: the file after a write that succeeded
save(rs, h) == [kind |-> "valid", doc |-> to_json(rs), hist |-> h]

(***************************************************************************)
(* The command line: mangit search <tags>.                                 *)
(***************************************************************************)
\* str::split(','): the pieces of s between the commas
RECURSIVE split(_)
split(s) ==
    IF \A i \in 1..Len(s) : s[i] # ","
    THEN <<s>>
    ELSE LET i == CHOOSE i \in 1..Len(s) : s[i] = "," /\ \A j \in 1..(i - 1) : s[j] # ","
         IN  <<SubSeq(s, 1, i - 1)>> \o split(SubSeq(s, i + 1, Len(s)))

\* faulty variant of the trim: str::trim_start, the white space at the end stays
RECURSIVE trim_start(_)
trim_start(s) ==
    IF s = <<>> THEN s
    ELSE IF Head(s) = " " THEN trim_start(Tail(s))
    ELSE s

\* str::trim: s without the white space at its ends
RECURSIVE trim(_)
trim(s) ==
    IF s = <<>> THEN s
    ELSE IF Head(s) = " " THEN trim(Tail(s))
    ELSE IF s[Len(s)] = " " THEN trim(SubSeq(s, 1, Len(s) - 1))
    ELSE s

is_empty(s) == s = <<>>

parse_tags(tags_str) ==
    LET parts == split(tags_str)
        trimmed == [i \in 1..Len(parts) |-> trim(parts[i])]
        NotEmpty(x) == ~is_empty(x)
    IN  SelectSeq(trimmed, NotEmpty)

\* Storage::search_by_tags on a list of one tag
search_by_tags(rs, tag_list, order, t) == search_by_tag(rs, tag_list[1], order, t)

NoWrite == "none"

\* what Commands::Search leaves: the error or the paths it prints, the Storage it
\* held when it returned and whether it wrote the file
Ran(err, ret, loaded, rs, tag_list, write) ==
    [err |-> err, ret |-> ret, loaded |-> loaded, repos |-> rs, tags |-> tag_list,
     write |-> write]

\* faulty variant of Commands::Search: the file is saved on every path but that of
\* a failed load
cmd_search_always_save(f, tags_str, order, t, io_load, io_save) ==
    LET ld == Storage_new(f, io_load)
        tag_list == parse_tags(tags_str)
        wrote == IF io_save THEN "ok" ELSE "failed"
        err == IF io_save THEN "" ELSE "Io"
    IN  IF ld.err # "" THEN Ran(ld.err, <<>>, FALSE, EmptyMap, <<>>, NoWrite)
        ELSE IF is_empty(tag_list) THEN Ran(err, <<>>, TRUE, ld.repos, tag_list, wrote)
        ELSE LET res == search_by_tags(ld.repos, tag_list, order, t)
             IN  Ran(err, res.ret, TRUE, res.repos, tag_list, wrote)

cmd_search(f, tags_str, order, t, io_load, io_save) ==
    LET ld == Storage_new(f, io_load)
        tag_list == parse_tags(tags_str)
    IN  IF ld.err # "" THEN Ran(ld.err, <<>>, FALSE, EmptyMap, <<>>, NoWrite)
        ELSE IF is_empty(tag_list) THEN Ran("", <<>>, TRUE, ld.repos, tag_list, NoWrite)
        ELSE LET res == search_by_tags(ld.repos, tag_list, order, t)
             IN  IF is_empty(res.ret)
                 THEN Ran("", res.ret, TRUE, res.repos, tag_list, NoWrite)
                 ELSE IF io_save
                 THEN Ran("", res.ret, TRUE, res.repos, tag_list, "ok")
                 ELSE Ran("Io", res.ret, TRUE, res.repos, tag_list, "failed")

(***************************************************************************)
(* A run of the binary: run() from Cli::parse to its return.               *)
(***************************************************************************)
\* a process that has not run: pc is where run() stands, arg the tags argument as
\* typed, tags what parse_tags made of it, repos the Storage the run holds; ghosts:
\* trace (the load, the operation and the save it performed, in order), stage (where
\* it failed), kept (the keys of the file whose directory existed at the load),
\* added (the key add_repo inserted) and before (the file when the run began)
NoRun ==
    [pc |-> "idle", cmd |-> "", path |-> NoPath, arg |-> <<>>, tags |-> NoTags,
     repos |-> EmptyMap, err |-> "", stage |-> "", trace |-> <<>>, kept |-> {},
     added |-> {}, before |-> AbsentFile]

\* what the match arm of a command leaves: the error it returns, the Storage, whether
\* it called a Storage operation, whether it goes on to storage.save, the tags it
\* parsed and the key it inserted
Arm(err, rs, op, to_save, tags, added) ==
    [err |-> err, repos |-> rs, op |-> op, save |-> to_save, tags |-> tags,
     added |-> added]

\* faulty variant of the arms of delete, update and access: Ok(false) is handled as
\* Ok(true)
found_or_error_lenient(res, tags) ==
    IF res.err # "" THEN Arm(res.err, res.repos, TRUE, FALSE, tags, {})
    ELSE Arm("", res.repos, TRUE, TRUE, tags, {})

\* Ok(true) goes on to save, Ok(false) is the error "Repo not found"
found_or_error(res, tags) ==
    IF res.err # "" THEN Arm(res.err, res.repos, TRUE, FALSE, tags, {})
    ELSE IF res.ret THEN Arm("", res.repos, TRUE, TRUE, tags, {})
    ELSE Arm("RepoNotFound", res.repos, TRUE, FALSE, tags, {})

\* faulty variant of the search arm: the file is saved whether or not a repo matched
search_arm_always_save(rs, tags, order, t) ==
    IF is_empty(tags) THEN Arm("", rs, FALSE, FALSE, tags, {})
    ELSE LET res == search_by_tags(rs, tags, order, t)
         IN  Arm("", res.repos, TRUE, TRUE, tags, {})

\* Commands::Search after Storage::new
search_arm(rs, tags, order, t) ==
    IF is_empty(tags) THEN Arm("", rs, FALSE, FALSE, tags, {})
    ELSE LET res == search_by_tags(rs, tags, order, t)
         IN  Arm("", res.repos, TRUE, ~is_empty(res.ret), tags, {})

\* the match arm of run() for the command cmd, after Storage::new returned rs;
\* path is NoPath where the command has none (reset without --path)
run_op(cmd, path, arg, rs, cwd, order, t) ==
    LET tags == parse_tags(arg)
    IN  CASE cmd = "init" -> Arm("", rs, FALSE, TRUE, NoTags, {})
          [] cmd = "add" ->
               LET res == add_repo(rs, path, tags, cwd, t)
               IN  IF res.err # "" THEN Arm(res.err, res.repos, TRUE, FALSE, tags, {})
                   ELSE Arm("", res.repos, TRUE, TRUE, tags,
                            IF res.ret THEN {res.key} ELSE {})
          [] cmd = "delete" -> found_or_error(delete_repo(rs, path, cwd), NoTags)
          [] cmd = "update" -> found_or_error(update_repo(rs, path, tags, cwd, t), tags)
          [] cmd = "access" -> found_or_error(record_access(rs, path, cwd, t), NoTags)
          [] cmd = "reset" ->
               LET res == IF path = NoPath THEN reset_frequency_all(rs, t)
                          ELSE reset_frequency(rs, path, cwd, t)
               IN  IF res.err # "" THEN Arm(res.err, res.repos, TRUE, FALSE, NoTags, {})
                   ELSE Arm("", res.repos, TRUE, TRUE, NoTags, {})
          [] cmd = "search" -> search_arm(rs, tags, order, t)
          [] OTHER -> Arm("", rs, TRUE, FALSE, NoTags, {})

\* main: the exit status of the process for what run() returned
exit_status(err) == IF err = "" THEN 0 ELSE 1

NoRuns == <<>>

(***************************************************************************)
(* The state machine: one action per Storage call, plus the clock and the  *)
(* directories changing under the program.                                 *)
(***************************************************************************)
\* ghost: what the record of key k was before the call (for cleanup, ret is the
\* ghost count of the records it removed)
NoRecord == [tracked |-> FALSE, tags |-> NoTags, len |-> 0]

Before(k) ==
    IF k \in DOMAIN repos
    THEN [tracked |-> TRUE, tags |-> repos[k].tags, len |-> Len(repos[k].access_times)]
    ELSE NoRecord

Idle == [op |-> "none", path |-> NoPath, tags |-> NoTags, err |-> "", ret |-> FALSE,
         key |-> NoPath, before |-> NoRecord]

Called(op, path, tags, res) ==
    [op |-> op, path |-> path, tags |-> tags, err |-> res.err, ret |-> res.ret,
     key |-> res.key, before |-> Before(res.key)]

\* fewer than max accesses were recorded on the record of k
CanRecord(k, max) == IF k \in DOMAIN hist THEN Len(hist[k]) < max ELSE TRUE

Recorded(h, k, t) == [h EXCEPT ![k] = Append(@, t)]

Init ==
    /\ repos = EmptyMap
    /\ hist = EmptyMap
    /\ fs \in SUBSET Dirs
    /\ file = AbsentFile
    /\ now = 0
    /\ last = Idle
    /\ procs = NoRuns

AddRepo(path, tags, cwd, max) ==
    LET res == add_repo(repos, path, tags, cwd, now)
    IN  /\ CanRecord(res.key, max)
        /\ repos' = res.repos
        /\ hist' = IF res.err # "" THEN hist
                   ELSE IF res.key \in DOMAIN repos THEN Recorded(hist, res.key, now)
                   ELSE Insert(hist, res.key, <<now>>)
        /\ last' = Called("add", path, tags, res)
        /\ UNCHANGED <<fs, file, now, procs>>

DeleteRepo(path, cwd) ==
    LET res == delete_repo(repos, path, cwd)
    IN  /\ repos' = res.repos
        /\ hist' = IF res.err # "" THEN hist ELSE Remove(hist, res.key)
        /\ last' = Called("delete", path, NoTags, res)
        /\ UNCHANGED <<fs, file, now, procs>>

UpdateRepo(path, tags, cwd, max) ==
    LET res == update_repo(repos, path, tags, cwd, now)
    IN  /\ CanRecord(res.key, max)
        /\ repos' = res.repos
        /\ hist' = IF res.err = "" /\ res.key \in DOMAIN repos
                   THEN Recorded(hist, res.key, now) ELSE hist
        /\ last' = Called("update", path, tags, res)
        /\ UNCHANGED <<fs, file, now, procs>>

RecordAccess(path, cwd, max) ==
    LET res == record_access(repos, path, cwd, now)
    IN  /\ CanRecord(res.key, max)
        /\ repos' = res.repos
        /\ hist' = IF res.err = "" /\ res.key \in DOMAIN repos
                   THEN Recorded(hist, res.key, now) ELSE hist
        /\ last' = Called("access", path, NoTags, res)
        /\ UNCHANGED <<fs, file, now, procs>>

ResetFrequency(path, cwd) ==
    LET res == reset_frequency(repos, path, cwd, now)
    IN  /\ repos' = res.repos
        /\ hist' = IF res.err = "" /\ res.key \in DOMAIN repos
                   THEN [hist EXCEPT ![res.key] = <<now>>] ELSE hist
        /\ last' = Called("reset", path, NoTags, res)
        /\ UNCHANGED <<fs, file, now, procs>>

ResetFrequencyAll ==
    LET res == reset_frequency_all(repos, now)
    IN  /\ repos' = res.repos
        /\ hist' = [k \in DOMAIN hist |-> <<now>>]
        /\ last' = Called("reset_all", NoPath, NoTags, res)
        /\ UNCHANGED <<fs, file, now, procs>>

SearchByTag(tag, max) ==
    \E order \in IterOrders(DOMAIN repos) :
        LET res == search_by_tag(repos, tag, order, now)
            hits == {k \in DOMAIN repos : has_tag(repos[k], to_lowercase(tag))}
        IN  /\ \A k \in hits : CanRecord(k, max)
            /\ repos' = res.repos
            /\ hist' = [k \in DOMAIN hist |->
                           IF k \in hits THEN Append(hist[k], now) ELSE hist[k]]
            /\ last' = Called("search", NoPath, <<tag>>, res)
            /\ UNCHANGED <<fs, file, now, procs>>

Cleanup ==
    /\ repos' = cleanup(repos)
    /\ hist' = Retain(hist, DOMAIN repos')
    /\ last' = [Idle EXCEPT !.op = "cleanup",
                            !.ret = Cardinality(DOMAIN repos) - Cardinality(DOMAIN repos')]
    /\ UNCHANGED <<fs, file, now, procs>>

\* Storage::new: on Ok the Storage it returns replaces the live one
Load(io_ok) ==
    LET res == Storage_new(file, io_ok)
    IN  /\ repos' = IF res.err = "" THEN res.repos ELSE repos
        /\ hist' = IF res.err = "" THEN Retain(file.hist, DOMAIN res.repos) ELSE hist
        /\ last' = Called("load", NoPath, NoTags, res)
        /\ UNCHANGED <<fs, file, now, procs>>

\* Storage::save: fs::write truncates the file and writes the document; when it
\* fails the file is as it was or holds a part of the document
Save(io_ok) ==
    /\ IF io_ok THEN file' = save(repos, hist) ELSE file' \in {file, CorruptFile}
    /\ last' = [Idle EXCEPT !.op = "save", !.err = IF io_ok THEN "" ELSE "Io", !.ret = io_ok]
    /\ UNCHANGED <<repos, hist, fs, now, procs>>

\* one run of mangit search <tags>: Storage::new, the search and the save
RunSearch(tags_str, io_load, io_save, max) ==
    /\ Len(parse_tags(tags_str)) <= 1
    /\ \E order \in IterOrders(DOMAIN Storage_new(file, io_load).repos) :
        LET res == cmd_search(file, tags_str, order, now, io_load, io_save)
            hits == {res.ret[i] : i \in 1..Len(res.ret)}
            h == [k \in DOMAIN res.repos |->
                     IF k \in hits THEN Append(file.hist[k], now) ELSE file.hist[k]]
        IN  /\ \A k \in hits : Len(file.hist[k]) < max
            /\ repos' = IF res.loaded THEN res.repos ELSE repos
            /\ hist' = IF res.loaded THEN h ELSE hist
            /\ IF res.write = "failed"
               THEN file' \in {file, CorruptFile}
               ELSE file' = IF res.write = "ok" THEN save(res.repos, h) ELSE file
            /\ last' = [Idle EXCEPT !.op = "cmd_search", !.tags = res.tags,
                                    !.err = res.err, !.ret = res.ret]
            /\ UNCHANGED <<fs, now, procs>>

\* run() up to the return of Storage::new; again: the process may run once more
\* after it exited
Start(p, cmd, path, arg, io_ok, again) ==
    LET ld == Storage_new(file, io_ok)
    IN  /\ procs[p].pc \in (IF again THEN {"idle", "exited"} ELSE {"idle"})
        /\ Len(parse_tags(arg)) <= 1
        /\ procs' = [procs EXCEPT ![p] =
               [NoRun EXCEPT !.pc = IF ld.err = "" THEN "loaded" ELSE "exited",
                             !.cmd = cmd, !.path = path, !.arg = arg,
                             !.repos = ld.repos, !.err = ld.err,
                             !.stage = IF ld.err = "" THEN "" ELSE "load",
                             !.trace = <<"load">>,
                             !.kept = {e.path : e \in {x \in file.doc : Normalize(x.path) \in fs}},
                             !.before = file]]
        /\ UNCHANGED <<repos, hist, fs, file, now, last>>

\* the match arm of the command, up to the call of storage.save
Operate(p, cwd, max) ==
    /\ procs[p].pc = "loaded"
    /\ \E order \in IterOrders(DOMAIN procs[p].repos) :
        LET r == procs[p]
            res == run_op(r.cmd, r.path, r.arg, r.repos, cwd, order, now)
        IN  /\ \A k \in DOMAIN res.repos : Len(res.repos[k].access_times) <= max
            /\ procs' = [procs EXCEPT ![p] =
                   [r EXCEPT !.pc = IF res.err = "" /\ res.save THEN "saving" ELSE "exited",
                             !.repos = res.repos, !.err = res.err, !.tags = res.tags,
                             !.stage = IF res.err = "" THEN "" ELSE "op",
                             !.trace = IF res.op THEN Append(r.trace, "op") ELSE r.trace,
                             !.added = res.added]]
    /\ UNCHANGED <<repos, hist, fs, file, now, last>>

\* storage.save and the return of run()
Write(p, io_ok) ==
    /\ procs[p].pc = "saving"
    /\ IF io_ok THEN file' = save(procs[p].repos, EmptyMap) ELSE file' \in {file, CorruptFile}
    /\ procs' = [procs EXCEPT ![p].pc = "exited",
                              ![p].err = IF io_ok THEN "" ELSE "Io",
                              ![p].stage = IF io_ok THEN "" ELSE "save",
                              ![p].trace = Append(@, "save")]
    /\ last' = [Idle EXCEPT !.op = "write", !.ret = p]
    /\ UNCHANGED <<repos, hist, fs, now>>

Tick(d) ==
    /\ now + d <= MaxNow
    /\ now' = now + d
    /\ last' = Idle
    /\ UNCHANGED <<repos, hist, fs, file, procs>>

Mkdir(d) ==
    /\ d \notin fs
    /\ fs' = fs \cup {d}
    /\ last' = Idle
    /\ UNCHANGED <<repos, hist, file, now, procs>>

Rmdir(d) ==
    /\ d \in fs
    /\ fs' = fs \ {d}
    /\ last' = Idle
    /\ UNCHANGED <<repos, hist, file, now, procs>>

(***************************************************************************)
(* Inputs.                                                                 *)
(***************************************************************************)
PathArgs == {K1, K2, RelK1}
CwdReads == {Cwd, NoPath}
\* env::current_dir() is read for a relative path only
CwdFor(p) == IF is_absolute(p) THEN {Cwd} ELSE CwdReads
TagLists == {<<tag_rust, tag_cli>>, <<tag_Rust>>}
SearchTags == {tag_rust, tag_cli, tag_rus, tag_Rust, tag_rusty}
IoOutcomes == BOOLEAN
TickSteps == {1}

Calls(paths, taglists, tags, max) ==
    \/ \E p \in paths, t \in taglists : \E c \in CwdFor(p) : AddRepo(p, t, c, max)
    \/ \E p \in paths : \E c \in CwdFor(p) : DeleteRepo(p, c)
    \/ \E p \in paths, t \in taglists : \E c \in CwdFor(p) : UpdateRepo(p, t, c, max)
    \/ \E p \in paths : \E c \in CwdFor(p) : RecordAccess(p, c, max)
    \/ \E p \in paths : \E c \in CwdFor(p) : ResetFrequency(p, c)
    \/ ResetFrequencyAll
    \/ \E tag \in tags : SearchByTag(tag, max)
    \/ Cleanup

Env(dirs) ==
    \/ \E d \in TickSteps : Tick(d)
    \/ \E d \in dirs : Mkdir(d)
    \/ \E d \in dirs : Rmdir(d)

\* the Storage calls on two directories, short histories, no backing file
Next ==
    \/ Calls(PathArgs, TagLists, SearchTags, MaxRecordedWide)
    \/ Env(Dirs)

Spec == Init /\ [][Next]_vars

\* every call on one directory, histories past the cap, with the backing file
InitCap == Init /\ fs \subseteq {K1}

NextCap ==
    \/ Calls({K1}, {<<tag_Rust>>}, {tag_rust}, MaxRecorded)
    \/ Env({K1})
    \/ \E io_ok \in IoOutcomes : Load(io_ok)
    \/ \E io_ok \in IoOutcomes : Save(io_ok)

SpecCap == InitCap /\ [][NextCap]_vars

TypeOK ==
    /\ DOMAIN hist = DOMAIN repos
    /\ now \in 0..MaxNow

(***************************************************************************)
(* RepoAccess::calculate_frecency on its own: one record whose timestamps  *)
(* lie at and beside the edges of the tiers, scored at ScoreNow.           *)
(***************************************************************************)
Day == 24 * Hour
Week == 7 * Day
TierEdges == {Minute, 30 * Minute, Hour, Day, Week}
Ages == {0} \cup TierEdges \cup {e - 1 : e \in TierEdges} \cup {Week + 1}

\* one, two or ten timestamps, oldest first as record_access leaves them
ScoredTimes ==
    {<<ScoreNow - a>> : a \in Ages}
        \cup {<<ScoreNow - a, ScoreNow - b>> : a, b \in Ages}
        \cup {[i \in 1..MaxAccessTimes |-> ScoreNow - a] : a \in Ages}

InitScore ==
    /\ \E ts \in {x \in ScoredTimes : \A i \in 1..(Len(x) - 1) : x[i] <= x[i + 1]} :
        /\ repos = Insert(EmptyMap, K1, [tags |-> <<tag_rust>>, access_times |-> ts])
        /\ hist = Insert(EmptyMap, K1, ts)
    /\ fs = {K1}
    /\ file = AbsentFile
    /\ now = ScoreNow
    /\ last = Idle
    /\ procs = NoRuns

Frecency(k) ==
    /\ last.op = "none"
    /\ last' = [Idle EXCEPT !.op = "frecency", !.key = k,
                            !.ret = calculate_frecency(repos[k], now)]
    /\ UNCHANGED <<repos, hist, fs, file, now, procs>>

NextScore == \E k \in DOMAIN repos : Frecency(k)

SpecScore == InitScore /\ [][NextScore]_vars

(***************************************************************************)
(* Ranking: two repos added with the same tags, then accessed and searched *)
(* now and an hour later (tests::test_frecency_sorting).                   *)
(***************************************************************************)
RankTimes == {0, Hour}

InitRank ==
    /\ fs = Dirs
    /\ repos = add_repo(add_repo(EmptyMap, K1, <<tag_Rust>>, Cwd, 0).repos,
                        K2, <<tag_Rust>>, Cwd, 0).repos
    /\ hist = [k \in Dirs |-> <<0>>]
    /\ file = AbsentFile
    /\ now = 0
    /\ last = Idle
    /\ procs = NoRuns

Elapse(t) ==
    /\ t > now
    /\ now' = t
    /\ last' = Idle
    /\ UNCHANGED <<repos, hist, fs, file, procs>>

NextRank ==
    \/ \E p \in Dirs : RecordAccess(p, Cwd, MaxRecordedRank)
    \/ SearchByTag(tag_rust, MaxRecordedRank)
    \/ \E t \in RankTimes : Elapse(t)

SpecRank == InitRank /\ [][NextRank]_vars

(***************************************************************************)
(* Relative paths: one directory named by "r1" and by "./r1".              *)
(***************************************************************************)
InitPath == Init /\ fs \subseteq {K1}

NextPath ==
    \/ Calls({RelK1, RelDotK1}, {<<tag_rust>>}, {tag_rust}, MaxRecordedWide)
    \/ Env({K1})

SpecPath == InitPath /\ [][NextPath]_vars

(***************************************************************************)
(* The backing file: an index as earlier runs left it, in memory and       *)
(* unsaved; then searches, saves, loads and the search command, while the  *)
(* directories come and go.                                                *)
(***************************************************************************)
DiskTimes == {<<0>>, <<1>>, <<0, 1>>}
DiskTags == [k \in Dirs |-> IF k = K1 THEN <<tag_rust, tag_cli>> ELSE <<tag_Rust>>]

InitDisk ==
    /\ fs \in SUBSET Dirs
    /\ \E tracked \in SUBSET Dirs : \E times \in [tracked -> DiskTimes] :
        /\ repos = [k \in tracked |-> [tags |-> DiskTags[k], access_times |-> times[k]]]
        /\ hist = times
    /\ file = AbsentFile
    /\ now = 1
    /\ last = Idle
    /\ procs = NoRuns

CliTagArgs == {<<" ", ",", " ">>, <<" ", "c", "l", "i", ",">>, <<"r", "u", "s">>}

\* the outcomes of reading and of writing the file in one run: at most one fails
IoPairs == {<<TRUE, TRUE>>, <<FALSE, TRUE>>, <<TRUE, FALSE>>}

NextDisk ==
    \/ \E tag \in {tag_cli, tag_rus, tag_rust} : SearchByTag(tag, MaxRecordedWide)
    \/ \E d \in Dirs : Mkdir(d)
    \/ \E d \in Dirs : Rmdir(d)
    \/ \E io_ok \in IoOutcomes : Load(io_ok)
    \/ \E io_ok \in IoOutcomes : Save(io_ok)
    \/ \E a \in CliTagArgs, io \in IoPairs : RunSearch(a, io[1], io[2], MaxRecordedWide)

SpecDisk == InitDisk /\ [][NextDisk]_vars

(***************************************************************************)
(* parse_tags on its own: every tags argument of up to MaxArgLen           *)
(* characters out of a comma, a space and two letters.                     *)
(***************************************************************************)
ArgChars == {",", " ", "a", "b"}
TagArgs == UNION {[1..n -> ArgChars] : n \in 0..MaxArgLen}

InitParse ==
    /\ repos = EmptyMap
    /\ hist = EmptyMap
    /\ fs = {}
    /\ file = AbsentFile
    /\ now = 0
    /\ last = Idle
    /\ \E a \in TagArgs : procs = <<[NoRun EXCEPT !.cmd = "add", !.arg = a]>>

ParseTags(p) ==
    /\ procs[p].pc = "idle"
    /\ procs' = [procs EXCEPT ![p].tags = parse_tags(procs[p].arg), ![p].pc = "parsed"]
    /\ UNCHANGED <<repos, hist, fs, file, now, last>>

NextParse == \E p \in DOMAIN procs : ParseTags(p)

SpecParse == InitParse /\ [][NextParse]_vars

(***************************************************************************)
(* The binary: one process that runs command after command, while the      *)
(* directories come and go.                                                *)
(***************************************************************************)
Cmd(cmd, path, arg) == [cmd |-> cmd, path |-> path, arg |-> arg]

arg_rust == <<"r", "u", "s", "t">>
arg_cli == <<" ", "c", "l", "i", ",">>
arg_none == <<" ", ",", " ">>

Commands ==
    {Cmd("init", NoPath, <<>>), Cmd("tags", NoPath, <<>>),
     Cmd("add", K1, arg_rust), Cmd("add", K2, arg_cli), Cmd("add", RelK1, arg_rust),
     Cmd("delete", K1, <<>>), Cmd("update", K1, arg_cli), Cmd("update", K2, arg_cli),
     Cmd("access", K1, <<>>), Cmd("access", RelK1, <<>>),
     Cmd("reset", NoPath, <<>>), Cmd("reset", K2, <<>>),
     Cmd("search", NoPath, arg_rust), Cmd("search", NoPath, arg_none),
     Cmd("search", NoPath, tag_rus)}

\* env::current_dir() as the command reads it
CwdOf(path) == IF path = NoPath THEN {Cwd} ELSE CwdFor(path)

InitCli ==
    /\ repos = EmptyMap
    /\ hist = EmptyMap
    /\ fs \in SUBSET Dirs
    /\ file = AbsentFile
    /\ now = 0
    /\ last = Idle
    /\ procs = <<NoRun>>

NextCli ==
    \/ \E p \in DOMAIN procs, c \in Commands, io_ok \in IoOutcomes :
           Start(p, c.cmd, c.path, c.arg, io_ok, TRUE)
    \/ \E p \in DOMAIN procs : \E cwd \in CwdOf(procs[p].path) :
           Operate(p, cwd, MaxRecordedWide)
    \/ \E p \in DOMAIN procs, io_ok \in IoOutcomes : Write(p, io_ok)
    \/ \E d \in Dirs : Mkdir(d)
    \/ \E d \in Dirs : Rmdir(d)

SpecCli == InitCli /\ [][NextCli]_vars

(***************************************************************************)
(* Two processes, each running one command, on a file that is not locked.  *)
(***************************************************************************)
RaceCommands ==
    {Cmd("add", K1, arg_rust), Cmd("add", K2, arg_cli), Cmd("access", K1, <<>>)}

InitRace ==
    /\ repos = EmptyMap
    /\ hist = EmptyMap
    /\ fs = Dirs
    /\ file \in {AbsentFile,
                 save(add_repo(EmptyMap, K1, <<tag_rust>>, Cwd, 0).repos, EmptyMap)}
    /\ now = 0
    /\ last = Idle
    /\ procs = <<NoRun, NoRun>>

NextRace ==
    \/ \E p \in DOMAIN procs, c \in RaceCommands : Start(p, c.cmd, c.path, c.arg, TRUE, FALSE)
    \/ \E p \in DOMAIN procs : Operate(p, Cwd, MaxRecordedWide)
    \/ \E p \in DOMAIN procs : Write(p, TRUE)

SpecRace == InitRace /\ [][NextRace]_vars

(***************************************************************************)
(* Tag lists: two directories that exist, each added and accessed once,    *)
(* and tag lists in which a tag occurs twice and out of alphabetical order.*)
(***************************************************************************)
RepeatedTagLists == {<<tag_rust, tag_cli, tag_rust>>, <<tag_cli>>}

InitTags ==
    /\ fs = Dirs
    /\ repos = [k \in Dirs |->
                   RepoAccess_record_access(RepoAccess_new(<<tag_Rust>>, 0), 0)]
    /\ hist = [k \in Dirs |-> <<0, 0>>]
    /\ file = AbsentFile
    /\ now = 0
    /\ last = Idle
    /\ procs = NoRuns

NextTags == Calls(Dirs, RepeatedTagLists, {tag_cli, tag_rust}, MaxRecordedWide)

SpecTags == InitTags /\ [][NextTags]_vars

(***************************************************************************)
(* A backing file that mangit did not write: one record whose history has  *)
(* any length from none to past the cap.                                   *)
(***************************************************************************)
StoredTimes == {[i \in 1..n |-> 0] : n \in 0..MaxStored}

InitEdited ==
    /\ fs = {K1}
    /\ repos = EmptyMap
    /\ hist = EmptyMap
    /\ \E ts \in StoredTimes :
           file = [kind |-> "valid",
                   doc |-> {[path |-> K1, tags |-> <<tag_Rust>>, access_times |-> ts]},
                   hist |-> Insert(EmptyMap, K1, ts)]
    /\ now = 0
    /\ last = Idle
    /\ procs = NoRuns

NextEdited ==
    \/ Calls({K1}, {<<tag_Rust>>}, {tag_rust, tag_cli}, MaxStored + 1)
    \/ \E io_ok \in IoOutcomes : Load(io_ok)
    \/ \E io_ok \in IoOutcomes : Save(io_ok)

SpecEdited == InitEdited /\ [][NextEdited]_vars

(***************************************************************************)
(* Properties.                                                             *)
(***************************************************************************)
\* the newest n elements of s, oldest first
Newest(s, n) == IF Len(s) > n THEN SubSeq(s, Len(s) - n + 1, Len(s)) ELSE s

Tracked(k) == k \in DOMAIN repos

\* the directory of the path the last call addressed exists
OnDisk(k) == Normalize(k) \in fs

\* C1: once 11 or more accesses were recorded on a record (its creation being the
\* first, no reset or delete since), access_times holds exactly 10 timestamps: the
\* 10 most recently recorded, oldest first.
C1_BoundedHistory ==
    \A k \in DOMAIN repos :
        Len(hist[k]) >= MaxAccessTimes + 1 =>
            /\ Len(repos[k].access_times) = 10
            /\ repos[k].access_times = SubSeq(hist[k], Len(hist[k]) - 9, Len(hist[k]))

\* 12 accesses were recorded at two clock readings, and the oldest ones are gone
C1_Witness ==
    \E k \in DOMAIN repos :
        /\ Len(hist[k]) = 12
        /\ hist[k][2] < hist[k][3]
        /\ repos[k].access_times[1] = hist[k][3]
        /\ last.op = "access"

\* C2: every record that exists has between 1 and 10 access timestamps, after any
\* sequence of add, update, record_access, reset, search_by_tag, delete, cleanup,
\* save and load.
C2_HistoryLength ==
    \A k \in DOMAIN repos :
        /\ 1 <= Len(repos[k].access_times)
        /\ Len(repos[k].access_times) <= 10

\* a history cut at the cap that was saved and has just been loaded back
C2_Witness ==
    /\ last.op = "load" /\ last.err = ""
    /\ file.kind = "valid"
    /\ \E k \in DOMAIN repos :
        /\ Len(repos[k].access_times) = 10
        /\ Len(hist[k]) = 12

\* C3: while the clock never goes back, the access_times of every record are in
\* non-decreasing order.
C3_Ascending ==
    \A k \in DOMAIN repos :
        \A i, j \in 1..Len(repos[k].access_times) :
            i < j => repos[k].access_times[i] <= repos[k].access_times[j]

\* a history recorded across a tick of the clock
C3_Witness ==
    \E k \in DOMAIN repos :
        /\ Len(repos[k].access_times) >= 3
        /\ repos[k].access_times[1] < repos[k].access_times[Len(repos[k].access_times)]

C4_AddStep ==
    (last'.op = "add" /\ last'.key # NoPath /\ OnDisk(last'.key)) =>
        LET k == last'.key
        IN  /\ last'.err = ""
            /\ last'.ret = ~Tracked(k)
            /\ IF ~Tracked(k)
               THEN /\ DOMAIN repos' = DOMAIN repos \cup {k}
                    /\ Cardinality(DOMAIN repos') = Cardinality(DOMAIN repos) + 1
                    /\ repos'[k] = [tags |-> last'.tags, access_times |-> <<now>>]
                    /\ \A j \in DOMAIN repos : repos'[j] = repos[j]
               ELSE /\ DOMAIN repos' = DOMAIN repos
                    /\ repos'[k].tags = last'.tags
                    /\ repos'[k].access_times =
                           Newest(Append(repos[k].access_times, now), 10)

\* C4: add(p, t) on a path that exists on disk returns true iff p was not tracked.
\* An untracked p gets one new record with tags t and the single timestamp now, and
\* the record count grows by one; a tracked p keeps the record count, has its tags
\* replaced by exactly t and one access recorded.
C4_Add == [][C4_AddStep]_vars

\* the second add of a path returned false and left the tags of the second call
C4_Witness ==
    /\ last.op = "add" /\ last.err = "" /\ last.ret = FALSE
    /\ last.tags = <<tag_Rust>>
    /\ repos[last.key].tags = <<tag_Rust>>
    /\ last.before.tags = <<tag_rust, tag_cli>>
    /\ Len(repos[last.key].access_times) = 2
    /\ Cardinality(DOMAIN repos) = 2

C5_AddMissingStep ==
    (last'.op = "add" /\ last'.key # NoPath /\ ~OnDisk(last'.key)) =>
        /\ last'.err = "PathNotFound"
        /\ repos' = repos

\* C5: add(p, t) when the resolved path does not exist on disk fails with the
\* path-not-found error and leaves the Index as it was, whether or not p is tracked.
C5_AddMissing == [][C5_AddMissingStep]_vars

\* add failed on a tracked path whose directory is gone
C5_Witness ==
    /\ last.op = "add" /\ last.err = "PathNotFound"
    /\ Tracked(last.key)
    /\ ~OnDisk(last.key)

C6_DeleteStep ==
    (last'.op = "delete" /\ last'.key # NoPath) =>
        LET k == last'.key
        IN  /\ last'.err = ""
            /\ last'.ret = Tracked(k)
            /\ k \notin DOMAIN repos'
            /\ (last'.ret = FALSE => repos' = repos)

\* C6: delete(p) returns true iff a record for p existed; afterwards p is not
\* tracked; when it returns false no error is raised and the Index is unchanged.
C6_Delete == [][C6_DeleteStep]_vars

\* delete removed one of two records
C6_Witness ==
    /\ last.op = "delete" /\ last.err = "" /\ last.ret = TRUE
    /\ ~Tracked(last.key)
    /\ Cardinality(DOMAIN repos) = 1

C7_UpdateStep ==
    (last'.op = "update" /\ last'.key # NoPath) =>
        LET k == last'.key
        IN  /\ last'.err = ""
            /\ last'.ret = Tracked(k)
            /\ IF Tracked(k)
               THEN repos' = [repos EXCEPT ![k] =
                        [tags |-> last'.tags,
                         access_times |-> Newest(Append(repos[k].access_times, now), 10)]]
               ELSE repos' = repos

C8_AccessStep ==
    (last'.op = "access" /\ last'.key # NoPath) =>
        LET k == last'.key
        IN  /\ last'.err = ""
            /\ last'.ret = Tracked(k)
            /\ IF Tracked(k)
               THEN /\ repos' = [repos EXCEPT ![k].access_times =
                                    Newest(Append(repos[k].access_times, now), 10)]
                    /\ repos'[k].access_times[Len(repos'[k].access_times)] = now
                    /\ repos'[k].tags = repos[k].tags
               ELSE repos' = repos

\* C8: record_access(p) returns true iff a record for p exists; then now is
\* appended as the last timestamp, the history is cut to the newest 10 and the tags
\* stay. On an untracked p it returns false and changes nothing.
C8_RecordAccess == [][C8_AccessStep]_vars

\* an access recorded on a full history evicted an older timestamp
C8_Witness ==
    /\ last.op = "access" /\ last.err = "" /\ last.ret = TRUE
    /\ Len(hist[last.key]) = 11
    /\ hist[last.key][1] < now
    /\ repos[last.key].access_times[10] = now

C9_ResetStep ==
    (last'.op = "reset" /\ last'.key # NoPath) =>
        LET k == last'.key
        IN  /\ last'.err = ""
            /\ last'.ret = (IF Tracked(k) THEN 1 ELSE 0)
            /\ IF Tracked(k)
               THEN /\ repos'[k].access_times = <<now>>
                    /\ Len(repos'[k].access_times) = 1
               ELSE repos' = repos

\* C9: reset(p) returns 1 iff p is tracked and 0 otherwise. When it returns 1 the
\* history is the single timestamp of the reset, whatever its length was, so a
\* second reset leaves the same shape; when it returns 0 the Index is unchanged.
C9_Reset == [][C9_ResetStep]_vars

\* a full history reset after the clock moved on
C9_Witness ==
    /\ last.op = "reset" /\ last.err = "" /\ last.ret = 1
    /\ last.before.len = 10
    /\ repos[last.key].access_times = <<now>>
    /\ now > 0

C10_ResetAllStep ==
    (last'.op = "reset_all") =>
        /\ last'.err = ""
        /\ last'.ret = Cardinality(DOMAIN repos)
        /\ DOMAIN repos' = DOMAIN repos
        /\ \A k \in DOMAIN repos :
            /\ Len(repos'[k].access_times) = 1
            /\ repos'[k].tags = repos[k].tags

\* C10: reset(None) returns the number of records in the Index (0 when it is
\* empty); afterwards every record has exactly one access timestamp, and the set of
\* tracked paths and all tags are as before.
C10_ResetAll == [][C10_ResetAllStep]_vars

\* two records reset at once
C10_Witness ==
    /\ last.op = "reset_all" /\ last.ret = 2
    /\ \A k \in DOMAIN repos : Len(repos[k].access_times) = 1
    /\ \E k \in DOMAIN repos : Len(repos[k].tags) = 2

(***************************************************************************)
(* Searching.                                                              *)
(***************************************************************************)
\* two characters that are the same letter
SameLetter(a, b) == a = b \/ {a, b} \in {{"R", "r"}, {"C", "c"}}

\* two strings equal but for the case of their letters
EqualIgnoringCase(x, y) ==
    /\ Len(x) = Len(y)
    /\ \A i \in 1..Len(x) : SameLetter(x[i], y[i])

\* the record r carries a tag equal to q but for case
Matches(r, q) == \E i \in 1..Len(r.tags) : EqualIgnoringCase(r.tags[i], q)

\* the paths of a search result
Range(seq) == {seq[i] : i \in 1..Len(seq)}

C11_SearchStep ==
    (last'.op = "search") =>
        LET q == last'.tags[1]
        IN  /\ last'.err = ""
            /\ Range(last'.ret) = {k \in DOMAIN repos : Matches(repos[k], q)}
            /\ \A k \in DOMAIN repos :
                 (repos[k].tags = <<tag_Rust>> /\ q = tag_rust) => k \in Range(last'.ret)
            /\ \A k \in DOMAIN repos :
                 (repos[k].tags = <<tag_Rust>> /\ q \in {tag_rus, tag_rusty})
                     => k \notin Range(last'.ret)

\* C11: search_by_tag(tag) returns exactly the records one of whose tags equals the
\* query but for letter case; a tag of which the query is a proper part, or that is
\* a proper part of the query, does not match ("Rust" matches "rust", not "rus").
C11_TagMatch == [][C11_SearchStep]_vars

\* a search for "rust" found a record tagged "Rust", beside one it did not return
C11_Witness ==
    /\ last.op = "search" /\ last.tags = <<tag_rust>>
    /\ Len(last.ret) = 2
    /\ \E k \in Range(last.ret) : repos[k].tags = <<tag_Rust>>
    /\ \E k \in Range(last.ret) : repos[k].tags = <<tag_rust, tag_cli>>

\* the score the tier table gives the timestamps ts at time t
TierWeight(age) ==
    CASE age < 60 -> 100
      [] age >= 60 /\ age < 1800 -> 80
      [] age >= 1800 /\ age < 3600 -> 60
      [] age >= 3600 /\ age < 86400 -> 40
      [] age >= 86400 /\ age < 604800 -> 20
      [] OTHER -> 10

RECURSIVE TierScore(_, _)
TierScore(ts, t) ==
    IF ts = <<>> THEN 0 ELSE TierWeight(t - ts[1]) + TierScore(Tail(ts), t)

C12_SearchStep ==
    (last'.op = "search") =>
        LET q == last'.tags[1]
            M == {k \in DOMAIN repos : Matches(repos[k], q)}
            res == last'.ret
        IN  /\ DOMAIN repos' = DOMAIN repos
            /\ \A k \in M :
                 repos'[k].access_times = Newest(Append(repos[k].access_times, now), 10)
            /\ \A k \in DOMAIN repos \ M :
                 repos'[k].access_times = repos[k].access_times
            /\ \A i \in 1..(Len(res) - 1) :
                 TierScore(repos'[res[i]].access_times, now)
                     >= TierScore(repos'[res[i + 1]].access_times, now)

\* C12: search_by_tag records one access (now appended, cut to 10) on every record
\* that matches, before the record is scored, and leaves the access_times of every
\* record that does not match as they were.
C12_SearchRecords == [][C12_SearchStep]_vars

\* a search for "cli" recorded on the one record that matches and not on the other
C12_Witness ==
    /\ last.op = "search" /\ last.tags = <<tag_cli>>
    /\ Len(last.ret) = 1
    /\ Len(repos[last.ret[1]].access_times) = 2
    /\ \E k \in DOMAIN repos :
        /\ k \notin Range(last.ret)
        /\ Len(repos[k].access_times) = 1
        /\ repos[k].access_times[1] < now

C19_CleanupStep ==
    (last'.op = "cleanup") =>
        /\ DOMAIN repos' = {k \in DOMAIN repos : OnDisk(k)}
        /\ \A k \in DOMAIN repos' : repos'[k] = repos[k]

\* C19: cleanup() removes exactly the records whose path does not exist on disk at
\* the time of the call; the records that stay keep their tags and access_times.
C19_Cleanup == [][C19_CleanupStep]_vars

\* cleanup removed one record and kept the other
C19_Witness ==
    /\ last.op = "cleanup" /\ last.ret = 1
    /\ Cardinality(DOMAIN repos) = 1
    /\ \A k \in DOMAIN repos : OnDisk(k) /\ Len(repos[k].access_times) = 2

(***************************************************************************)
(* Scoring.                                                                *)
(***************************************************************************)
\* the score of a record with the one timestamp of the given age
ScoreAtAge(age, score) ==
    (last.op = "frecency" /\ repos[last.key].access_times = <<now - age>>)
        => last.ret = score

\* C16: the score is the sum over the timestamps of the weight of the first tier
\* whose upper bound exceeds the age (100, 80, 60, 40, 20, 10 for under 1 min, 30 min,
\* 1 h, 24 h, 7 days, beyond); the upper bounds are exclusive, so an age of exactly
\* 1 min scores 80, 30 min 60, 1 h 40, 24 h 20 and 7 days 10.
C16_Frecency ==
    /\ (last.op = "frecency") =>
           last.ret = TierScore(repos[last.key].access_times, now)
    /\ ScoreAtAge(59, 100) /\ ScoreAtAge(60, 80)
    /\ ScoreAtAge(1799, 80) /\ ScoreAtAge(1800, 60)
    /\ ScoreAtAge(3599, 60) /\ ScoreAtAge(3600, 40)
    /\ ScoreAtAge(86399, 40) /\ ScoreAtAge(86400, 20)
    /\ ScoreAtAge(604799, 20) /\ ScoreAtAge(604800, 10)

\* a record accessed exactly 7 days and exactly 1 minute ago scored 10 + 80
C16_Witness ==
    /\ last.op = "frecency"
    /\ repos[last.key].access_times = <<now - 604800, now - 60>>
    /\ last.ret = 90

(***************************************************************************)
(* Ranking.                                                                *)
(***************************************************************************)
Score(k) == TierScore(repos[k].access_times, now)

\* C13: the sequence search_by_tag returns is ordered by score descending, the
\* scores being those of the records after the access of the search was recorded:
\* of two adjacent results the earlier scores at least as much as the later.
C13_Ordered ==
    (last.op = "search") =>
        \A i \in 1..(Len(last.ret) - 1) : Score(last.ret[i]) >= Score(last.ret[i + 1])

\* a search whose order differs from that of the scores before its access: of two
\* records the one that led before the search (ten old accesses against seven old
\* and one new) comes second
C13_Witness ==
    /\ last.op = "search" /\ now = Hour
    /\ \E a, b \in DOMAIN repos :
        /\ last.ret = <<b, a>>
        /\ Score(b) > Score(a)
        /\ Len(hist[a]) = 11 /\ Len(hist[b]) = 9
        /\ TierScore(SubSeq(hist[a], 1, 10), now) > TierScore(SubSeq(hist[b], 1, 8), now)

\* a comes before b in the result of the last call
Ahead(a, b) ==
    \E i, j \in 1..Len(last.ret) : i < j /\ last.ret[i] = a /\ last.ret[j] = b

\* every timestamp of the records of a and b has the same weight
OneTier(a, b) ==
    \A x, y \in Range(repos[a].access_times) \cup Range(repos[b].access_times) :
        TierWeight(now - x) = TierWeight(now - y)

\* C14 as stated: of two paths with the same tags and one initial access each, the
\* one on which record_access was called more often scores strictly more and is
\* returned first by a following search.
C14_Original ==
    \A a, b \in DOMAIN repos :
        (repos[a].tags = repos[b].tags /\ Len(hist[a]) > Len(hist[b]))
            => /\ Score(a) > Score(b)
               /\ (last.op = "search" => Ahead(a, b))

\* C14: of two paths with the same tags and one initial access each, the one on
\* which record_access was called more often scores strictly more and is returned
\* first by a following search, provided that the timestamps of both fall in one
\* tier and that the other has fewer than 10 accesses recorded.
C14_Monotonic ==
    \A a, b \in DOMAIN repos :
        (/\ repos[a].tags = repos[b].tags
         /\ Len(hist[a]) > Len(hist[b])
         /\ Len(hist[b]) < MaxAccessTimes
         /\ OneTier(a, b))
            => /\ Score(a) > Score(b)
               /\ (last.op = "search" => Ahead(a, b))

\* three accesses more on the second repo, and the search returns it first
C14_Witness ==
    /\ last.op = "search" /\ last.ret = <<K2, K1>>
    /\ Len(hist[K2]) = Len(hist[K1]) + 3
    /\ Len(hist[K1]) = 2
    /\ OneTier(K1, K2)

(***************************************************************************)
(* Keys.                                                                   *)
(***************************************************************************)
\* C17: two path strings that resolve to the same absolute path denote the same
\* key ("repo" and "./repo" under one working directory): the calls on the one act
\* on the record created for the other, and the map never holds two records for one
\* location.
C17_OneKeyPerLocation ==
    \A j, k \in DOMAIN repos : Normalize(j) = Normalize(k) => j = k

(***************************************************************************)
(* Searching and the backing file.                                         *)
(***************************************************************************)
\* the entry of the document for the record r of key k
Entry(k, r) == [path |-> k, tags |-> r.tags, access_times |-> r.access_times]

C15_SearchStep ==
    /\ (last'.op = "search") =>
           /\ DOMAIN repos' = DOMAIN repos
           /\ \A k \in DOMAIN repos : repos'[k].tags = repos[k].tags
           /\ (\A k \in DOMAIN repos : ~Matches(repos[k], last'.tags[1]))
                  => (last'.ret = <<>> /\ repos' = repos)
    /\ (last'.op = "cmd_search" /\ last'.tags = <<>>) =>
           /\ file' = file
           /\ last'.ret = <<>>
           /\ \A k \in DOMAIN repos' : last'.err = "" => Entry(k, repos'[k]) \in file.doc

\* C15: a search neither creates nor deletes a record nor changes a record's tags;
\* a query that matches no record returns the empty sequence and leaves every
\* record as it was; the search command given no tag (nothing but commas and
\* spaces) searches nothing, records no access and does not write the file.
C15_SearchFrame == [][C15_SearchStep]_vars

\* the search command ran with no tag on a file of two records, one of them for a
\* directory that is gone: the record is dropped in memory and is still in the file
C15_Witness ==
    /\ last.op = "cmd_search" /\ last.tags = <<>> /\ last.err = ""
    /\ file.kind = "valid" /\ Cardinality(file.doc) = 2
    /\ Cardinality(DOMAIN repos) = 1
    /\ \A k \in DOMAIN repos : Entry(k, repos[k]) \in file.doc

C18_RoundTripStep ==
    (/\ last.op = "save" /\ last.err = ""
     /\ last'.op = "load" /\ last'.err = ""
     /\ \A k \in DOMAIN repos : OnDisk(k))
        => /\ DOMAIN repos' = DOMAIN repos
           /\ \A k \in DOMAIN repos :
                /\ repos'[k].tags = repos[k].tags
                /\ repos'[k].access_times = repos[k].access_times

C20_LoadCleans ==
    (last.op \in {"load", "cmd_search"} /\ last.err = "" /\ file.kind = "valid")
        => \A k \in DOMAIN repos : OnDisk(k)

\* a load of a file of two records kept the one whose directory exists
C20_Witness ==
    /\ last.op = "load" /\ last.err = "" /\ file.kind = "valid"
    /\ Cardinality(file.doc) = 2
    /\ \E e \in file.doc : ~OnDisk(e.path) /\ e.path \notin DOMAIN repos
    /\ \E e \in file.doc : OnDisk(e.path) /\ e.path \in DOMAIN repos

(***************************************************************************)
(* Loading, errors and the range of the score.                             *)
(***************************************************************************)
C21_LoadAbsentStep ==
    (last'.op = "load" /\ file.kind = "absent" /\ last'.err # "Io") =>
        /\ last'.err = ""
        /\ repos' = EmptyMap
        /\ file' = file

\* C21: a load when the backing file is absent succeeds (the directory of the file
\* being there or created) and yields an index of no record; the load does not
\* create the file.
C21_LoadAbsent == [][C21_LoadAbsentStep]_vars

\* a load with no file, both directories present, gave the empty index
C21_Witness ==
    /\ last.op = "load" /\ last.err = "" /\ last.ret = TRUE
    /\ file = AbsentFile
    /\ fs = Dirs
    /\ repos = EmptyMap

\* C27: delete, update, record_access and reset on a path that is not tracked, the
\* working directory being known, return Ok(false) or Ok(0) and never an error; add
\* on a path that does not exist returns an error.
C27_AbsentIsNoError ==
    /\ (/\ last.op \in {"delete", "update", "access", "reset"}
        /\ last.key # NoPath
        /\ ~last.before.tracked)
           => /\ last.err = ""
              /\ IF last.op = "reset" THEN last.ret = 0 ELSE last.ret = FALSE
    /\ (last.op = "add" /\ last.key # NoPath /\ ~OnDisk(last.key))
           => last.err = "PathNotFound"

\* record_access on a path that is not tracked, beside one that is, returned false
C27_Witness ==
    /\ last.op = "access" /\ last.key # NoPath
    /\ ~last.before.tracked
    /\ last.err = "" /\ last.ret = FALSE
    /\ repos # EmptyMap

C29_AccessStep ==
    (last'.op = "access" /\ last'.ret = TRUE) =>
        LET k == last'.key
            old == calculate_frecency(repos[k], now)
            new == calculate_frecency(repos'[k], now)
        IN  IF Len(repos[k].access_times) < MaxAccessTimes
            THEN new = old + 100
            ELSE new >= old /\ new <= old + 90

\* C29: at a fixed instant, one more access recorded on a record of fewer than 10
\* timestamps raises its score by 100; on a record of 10 timestamps it never lowers
\* the score (the timestamp that goes weighs at most 100, the one that comes 100).
C29_Cumulative == [][C29_AccessStep]_vars

\* an access on a record of ten hour-old timestamps raised its score from 400 to 460
C29_Witness ==
    /\ last.op = "access" /\ last.ret = TRUE /\ last.before.len = 10
    /\ now = Hour
    /\ calculate_frecency(repos[last.key], now) = 460
    /\ Len(hist[last.key]) = 11

\* C30: the score of a record of n timestamps lies between 10 * n and 100 * n, so
\* it is never negative and at most 1000 under the cap of 10; for a fixed history
\* the score never rises as the time advances.
C30_Range ==
    (last.op = "frecency") =>
        LET r == repos[last.key]
            n == Len(r.access_times)
        IN  /\ 10 * n <= last.ret /\ last.ret <= 100 * n
            /\ last.ret >= 0 /\ last.ret <= 1000
            /\ \A d \in Ages : calculate_frecency(r, now + d) <= last.ret
            /\ \A d, e \in Ages :
                 d <= e => calculate_frecency(r, now + e) <= calculate_frecency(r, now + d)

\* a record of ten fresh timestamps scored 1000, and 100 a week later
C30_Witness ==
    /\ last.op = "frecency"
    /\ Len(repos[last.key].access_times) = 10
    /\ last.ret = 1000
    /\ calculate_frecency(repos[last.key], now + Week) = 100

(***************************************************************************)
(* The tags argument.                                                      *)
(***************************************************************************)
Blank(c) == c \in {",", " "}

\* the character at i belongs to a tag: it is no comma, and if it is a space there
\* is a character of a tag on either side of it before the next comma
InTag(s, i) ==
    /\ s[i] # ","
    /\ s[i] = " " =>
        /\ \E j \in 1..(i - 1) : ~Blank(s[j]) /\ \A m \in j..i : s[m] # ","
        /\ \E j \in (i + 1)..Len(s) : ~Blank(s[j]) /\ \A m \in i..j : s[m] # ","

\* s without the characters that belong to no tag, the commas kept
RECURSIVE Stripped(_, _)
Stripped(s, i) ==
    IF i > Len(s) THEN <<>>
    ELSE (IF s[i] = "," \/ InTag(s, i) THEN <<s[i]>> ELSE <<>>) \o Stripped(s, i + 1)

\* s with each run of commas made one comma, and none at either end
RECURSIVE OneComma(_)
OneComma(s) ==
    IF s = <<>> THEN s
    ELSE IF Head(s) = "," /\ (Len(s) = 1 \/ s[2] = ",") THEN OneComma(Tail(s))
    ELSE <<Head(s)>> \o OneComma(Tail(s))

NoLeadingComma(s) == IF s # <<>> /\ Head(s) = "," THEN Tail(s) ELSE s

\* the tags with a comma between each two
RECURSIVE Joined(_)
Joined(ts) ==
    IF ts = <<>> THEN <<>>
    ELSE IF Len(ts) = 1 THEN ts[1]
    ELSE ts[1] \o <<",">> \o Joined(Tail(ts))

\* C28: parse_tags returns the parts of its input between the commas, each without
\* the white space at its ends, the empty ones dropped and the order kept: no tag
\* of the result is empty or begins or ends with a space, and the empty string
\* gives the empty list.
C28_ParseTags ==
    \A p \in DOMAIN procs :
        (procs[p].pc = "parsed") =>
            LET a == procs[p].arg
                ts == procs[p].tags
            IN  /\ \A i \in 1..Len(ts) :
                     /\ ts[i] # <<>>
                     /\ Head(ts[i]) # " " /\ ts[i][Len(ts[i])] # " "
                     /\ \A j \in 1..Len(ts[i]) : ts[i][j] # ","
                /\ Joined(ts) = NoLeadingComma(OneComma(Stripped(a, 1)))
                /\ (a = <<>>) => (ts = <<>>)
                /\ (a = <<"a", ",", ",", "b">>) => (ts = << <<"a">>, <<"b">> >>)
                /\ (a = <<"a", ",", " ", "b">>) => (ts = << <<"a">>, <<"b">> >>)

\* "b ,a " parsed to the tags b and a
C28_Witness ==
    \E p \in DOMAIN procs :
        /\ procs[p].pc = "parsed"
        /\ procs[p].arg = <<"b", " ", ",", "a">>
        /\ procs[p].tags = << <<"b">>, <<"a">> >>

(***************************************************************************)
(* The runs of the binary.                                                 *)
(***************************************************************************)
Keys(doc) == {e.path : e \in doc}

Saved(r) == \E i \in 1..Len(r.trace) : r.trace[i] = "save"

\* C22: when the file is present and does not parse, the load fails with an error
\* (no empty index is handed out) and the run writes nothing: the file is as it was.
C22_CorruptFile ==
    \A p \in DOMAIN procs :
        (procs[p].pc # "idle" /\ procs[p].before.kind = "corrupt") =>
            /\ procs[p].pc = "exited"
            /\ procs[p].err \in {"Parse", "Io"}
            /\ procs[p].stage = "load"
            /\ procs[p].trace = <<"load">>
            /\ file = procs[p].before

\* add of a directory that exists ran on a file that does not parse, and failed
C22_Witness ==
    \E p \in DOMAIN procs :
        /\ procs[p].pc = "exited" /\ procs[p].err = "Parse"
        /\ procs[p].cmd = "add" /\ procs[p].path = K1 /\ K1 \in fs
        /\ file = CorruptFile

\* the command of r is an add of an absolute path whose directory is missing
AddOfMissing(r) == r.cmd = "add" /\ is_absolute(r.path) /\ ~OnDisk(r.path)

C23_FatalStep ==
    \A p \in DOMAIN procs :
        /\ (procs[p].pc = "loaded" /\ procs'[p].pc # "loaded" /\ AddOfMissing(procs[p]))
               => /\ procs'[p].pc = "exited"
                  /\ procs'[p].err = "PathNotFound"
                  /\ procs'[p].stage = "op"
        /\ (procs'[p].pc = "exited" /\ procs'[p].stage \in {"load", "op"})
               => /\ procs'[p].err # ""
                  /\ ~Saved(procs'[p])
                  /\ file' = procs'[p].before

\* C23: for every command, when the load or the operation fails (I/O or parse
\* error of the load, add of a missing path, path that cannot be resolved, repo not
\* found) the run ends without a call of save and the file is as it was before
\* the run.
C23_NoSaveOnError == [][C23_FatalStep]_vars

\* add of a missing directory failed on a file of one record, which is as it was
C23_Witness ==
    \E p \in DOMAIN procs :
        /\ procs[p].pc = "exited" /\ procs[p].cmd = "add"
        /\ procs[p].err = "PathNotFound"
        /\ procs[p].trace = <<"load", "op">>
        /\ file.kind = "valid" /\ Cardinality(file.doc) = 1
        /\ file = procs[p].before

\* what the last write left is the Storage of the process that wrote
Wrote(p) == last.op = "write" /\ last.ret = p

Done(r) == r.pc = "exited" /\ r.err = "" /\ Saved(r)

\* C24: the file is not locked. Of two runs that both loaded the file as it first
\* was and both saved without error, the file holds what the later one to save
\* held, and nothing of what the other added: its update is lost.
C24_LostUpdate ==
    \A p, q \in DOMAIN procs :
        (/\ p # q /\ Wrote(p)
         /\ Done(procs[p]) /\ Done(procs[q])
         /\ procs[p].before = procs[q].before)
            => /\ file.doc = {Entry(k, procs[p].repos[k]) : k \in DOMAIN procs[p].repos}
               /\ \A k \in procs[q].added \ procs[p].added : k \notin Keys(file.doc)

\* both runs added a repo to the empty file and exited without error; the file
\* holds the repo of the second alone
C24_Witness ==
    /\ Wrote(2)
    /\ Done(procs[1]) /\ Done(procs[2])
    /\ procs[1].before = AbsentFile /\ procs[2].before = AbsentFile
    /\ procs[1].added = {K1} /\ procs[2].added = {K2}
    /\ Keys(file.doc) = {K2}

\* C25 as stated: every run of every command that ends without error performed one
\* load, then one operation, then one save.
C25_Original ==
    \A p \in DOMAIN procs :
        (procs[p].pc = "exited" /\ procs[p].err = "")
            => procs[p].trace = <<"load", "op", "save">>

\* C25: every run performs exactly one load, first; then at most one operation and
\* at most one save, last. It saves when the load and the operation succeeded and
\* the command is init, add or reset, or delete, update or access of a tracked
\* path, or a search that matched a repo; tags, a search with no tag or no match,
\* and every run that failed do not save; init and a search with no tag perform
\* no operation.
C25_RunShape ==
    \A p \in DOMAIN procs :
        (procs[p].pc = "exited") =>
            LET r == procs[p]
            IN  /\ r.trace \in {<<"load">>, <<"load", "op">>, <<"load", "save">>,
                               <<"load", "op", "save">>}
                /\ (r.stage = "load") => (r.trace = <<"load">>)
                /\ (r.stage = "op") => (r.trace = <<"load", "op">>)
                /\ (r.cmd = "init" /\ r.stage # "load") => (r.trace = <<"load", "save">>)
                /\ (r.cmd = "tags" /\ r.stage # "load") => (r.trace = <<"load", "op">>)
                /\ (r.cmd \in {"add", "delete", "update", "access", "reset"}
                        /\ r.stage \notin {"load", "op"})
                       => (r.trace = <<"load", "op", "save">>)
                /\ (r.cmd = "search" /\ r.stage # "load" /\ r.tags = <<>>)
                       => (r.trace = <<"load">>)
                /\ (r.cmd = "search" /\ r.stage # "load" /\ r.tags # <<>>)
                       => (r.trace = IF \E k \in DOMAIN r.repos : Matches(r.repos[k], r.tags[1])
                                     THEN <<"load", "op", "save">>
                                     ELSE <<"load", "op">>)

\* a search that matched no repo ended without error and without a save, on a file
\* that holds a record
C25_Witness ==
    \E p \in DOMAIN procs :
        /\ procs[p].pc = "exited" /\ procs[p].err = ""
        /\ procs[p].cmd = "search" /\ procs[p].tags = <<tag_rus>>
        /\ procs[p].trace = <<"load", "op">>
        /\ procs[p].repos # EmptyMap

C26_SaveStep ==
    \A p \in DOMAIN procs :
        (procs[p].pc = "saving" /\ procs'[p].pc = "exited" /\ procs'[p].err = "")
            => /\ file'.kind = "valid"
               /\ Keys(file'.doc) \subseteq procs[p].kept \cup procs[p].added
               /\ Keys(file'.doc) = DOMAIN procs[p].repos

\* C26: at every save, each key of the index written was in the file with its
\* directory on disk at the load of this run, or was added by add in this run; no
\* other key is written.
C26_PersistedKeys == [][C26_SaveStep]_vars

\* a run loaded a file of two records of which one directory was gone, added that
\* path again once the directory was back, and wrote both keys
C26_Witness ==
    \E p \in DOMAIN procs :
        /\ procs[p].pc = "exited" /\ procs[p].err = "" /\ Wrote(p)
        /\ Keys(procs[p].before.doc) = Dirs
        /\ procs[p].kept = {K2} /\ procs[p].added = {K1}
        /\ Keys(file.doc) = Dirs

(***************************************************************************)
(* The result of a search.                                                 *)
(***************************************************************************)
C31_SearchStep ==
    (last'.op = "search") =>
        LET found == {k \in DOMAIN repos : Matches(repos[k], last'.tags[1])}
            ret == last'.ret
        IN  /\ Len(ret) = Cardinality(found)
            /\ Range(ret) = found
            /\ \A i, j \in 1..Len(ret) : ret[i] = ret[j] => i = j
            /\ \A i \in 1..Len(ret) : ret[i] \in DOMAIN repos

\* C31: the sequence search_by_tag returns holds every tracked path that matches
\* the tag exactly once and no other path: it is a permutation of the set of the
\* matching paths, and each of its elements is a path, with no score beside it.
C31_Permutation == [][C31_SearchStep]_vars

\* a search returned both tracked paths, each once
C31_Witness ==
    /\ last.op = "search" /\ last.tags = <<tag_rust>> /\ last.err = ""
    /\ DOMAIN repos = Dirs
    /\ Len(last.ret) = 2 /\ last.ret[1] # last.ret[2]
    /\ Range(last.ret) = Dirs

\* the score of the record of k as the search that led to the next state took it
ScoreTaken(k) == calculate_frecency(repos'[k], now)

C32_SearchStep ==
    (last'.op = "search") =>
        \A o \in IterOrders(DOMAIN repos) :
            LET ret == last'.ret
                other == search_by_tag(repos, last'.tags[1], o, now).ret
            IN  /\ Range(other) = Range(ret)
                /\ Len(other) = Len(ret)
                /\ (\A a, b \in Range(ret) : a # b => ScoreTaken(a) # ScoreTaken(b))
                       => other = ret
                /\ \A i \in 1..Len(ret) :
                       other[i] # ret[i] => ScoreTaken(other[i]) = ScoreTaken(ret[i])

\* C32: two searches for one tag on equal indexes at one clock value return the
\* same set of paths whatever the order in which the map hands out its records,
\* and the same sequence when the scores of the matching records differ pairwise;
\* where the two sequences differ, the paths at that position have equal scores.
C32_Deterministic == [][C32_SearchStep]_vars

\* a search returned the second repo ahead of the first, their scores being
\* different: every iteration order gives this sequence
C32_Witness ==
    /\ last.op = "search" /\ last.ret = <<K2, K1>>
    /\ calculate_frecency(repos[K2], now) > calculate_frecency(repos[K1], now)
    /\ Len(repos[K2].access_times) > Len(repos[K1].access_times)

(***************************************************************************)
(* Runs one after the other.                                               *)
(***************************************************************************)
\* the entry e of a document after an access at t, after new tags, after a reset
Touched(e, t) == [e EXCEPT !.access_times = Newest(Append(@, t), MaxAccessTimes)]

Retagged(e, tags, t) == [Touched(e, t) EXCEPT !.tags = tags]

Fresh(e, t) == [e EXCEPT !.access_times = <<t>>]

\* the document a run r that saves is to leave: the entries of the file it began
\* with whose directory existed at its load, and on them the one operation of r
Expected(r) ==
    LET base == {e \in r.before.doc : e.path \in r.kept}
        key == IF is_absolute(r.path) THEN r.path ELSE Cwd \o r.path
    IN  CASE r.cmd = "init" -> base
          [] r.cmd = "add" ->
               IF key \in Keys(base)
               THEN {IF e.path = key THEN Retagged(e, r.tags, now) ELSE e : e \in base}
               ELSE base \cup {[path |-> key, tags |-> r.tags, access_times |-> <<now>>]}
          [] r.cmd = "delete" -> {e \in base : e.path # key}
          [] r.cmd = "update" ->
               {IF e.path = key THEN Retagged(e, r.tags, now) ELSE e : e \in base}
          [] r.cmd = "access" -> {IF e.path = key THEN Touched(e, now) ELSE e : e \in base}
          [] r.cmd = "reset" ->
               {IF r.path = NoPath \/ e.path = key THEN Fresh(e, now) ELSE e : e \in base}
          [] r.cmd = "search" ->
               {IF Matches(e, r.tags[1]) THEN Touched(e, now) ELSE e : e \in base}
          [] OTHER -> {}

C33_SaveStep ==
    \A p \in DOMAIN procs :
        (procs[p].pc = "saving" /\ procs'[p].pc = "exited" /\ procs'[p].err = "")
            => /\ file = procs[p].before
               /\ file'.kind = "valid"
               /\ file'.doc = Expected(procs[p])

\* C33: when runs do not overlap, each run that saves (add, delete, update and
\* access of a tracked path, reset, a search that matched) leaves as the file the
\* index read from the file the last run left, less the records whose directory
\* was missing at the load, with its one operation applied: what earlier runs
\* wrote is still there unless this operation or the pruning removed it.
C33_Sequential == [][C33_SaveStep]_vars

\* an access of the first repo was saved on a file that held both: the second is
\* as it was and the first has one timestamp more
C33_Witness ==
    \E p \in DOMAIN procs :
        /\ procs[p].pc = "exited" /\ procs[p].err = "" /\ Wrote(p)
        /\ procs[p].cmd = "access"
        /\ Keys(procs[p].before.doc) = Dirs /\ Keys(file.doc) = Dirs
        /\ \E e \in file.doc : e.path = K2 /\ e \in procs[p].before.doc
        /\ \E e \in file.doc, b \in procs[p].before.doc :
               /\ e.path = K1 /\ b.path = K1 /\ e.tags = b.tags
               /\ Len(e.access_times) = Len(b.access_times) + 1

(***************************************************************************)
(* Runs that do not save.                                                  *)
(***************************************************************************)
\* the entries of the file the run r began with that its load kept
LoadedDoc(r) == {e \in r.before.doc : e.path \in r.kept}

\* the key the path argument of r names when the working directory can be read
KeyOf(r) == IF is_absolute(r.path) THEN r.path ELSE Cwd \o r.path

\* r is a run that has nothing to save: tags, a search with no tag or with no
\* match, delete, update or access of a path that is not tracked
Fruitless(r) ==
    \/ r.cmd = "tags"
    \/ r.cmd = "search" /\ trim(r.arg) \in {<<>>, <<",">>}
    \/ r.cmd = "search" /\ r.tags # <<>> /\ \A e \in LoadedDoc(r) : ~Matches(e, r.tags[1])
    \/ r.cmd \in {"delete", "update", "access"} /\ KeyOf(r) \notin Keys(LoadedDoc(r))

C34_Step ==
    /\ \A p \in DOMAIN procs :
           (procs'[p].pc = "exited" /\ Fruitless(procs'[p]))
               => /\ ~Saved(procs'[p])
                  /\ file' = procs'[p].before
    /\ (file' # file) => \E p \in DOMAIN procs :
                             procs[p].pc = "saving" /\ procs'[p].pc = "exited"

\* C34: a run that does not save leaves the file as it was, also when its load
\* dropped records in memory: tags, search with no tag or no match, and delete,
\* update and access of an untracked path. A record whose directory is gone stays
\* in the file through such runs; the file changes only in a run that saves.
C34_NoSaveNoChange == [][C34_Step]_vars

\* tags ran on a file of two records, one of them for a directory that is gone:
\* the run held one record and the file still holds both
C34_Witness ==
    \E p \in DOMAIN procs :
        /\ procs[p].pc = "exited" /\ procs[p].err = "" /\ procs[p].cmd = "tags"
        /\ procs[p].trace = <<"load", "op">>
        /\ Keys(procs[p].before.doc) = Dirs
        /\ DOMAIN procs[p].repos = {K2}
        /\ file = procs[p].before

(***************************************************************************)
(* The commands on a path that is not tracked.                             *)
(***************************************************************************)
\* the run r got past its load and the resolution of its path
Resolved(r) == r.pc = "exited" /\ r.stage # "load" /\ r.err # "PathResolution"

\* C35: delete, update and access of an untracked path end the run with the error
\* "Repo not found" (exit status 1) and without a save; reset of an untracked path
\* is no error and goes on to save; add goes on to save both when it inserted the
\* path and when the path was tracked already.
C35_CommandLevel ==
    \A p \in DOMAIN procs :
        LET r == procs[p]
            untracked == KeyOf(r) \notin Keys(LoadedDoc(r))
        IN  /\ (Resolved(r) /\ r.cmd \in {"delete", "update", "access"} /\ untracked)
                   => /\ r.err = "RepoNotFound" /\ exit_status(r.err) = 1
                      /\ r.trace = <<"load", "op">>
                      /\ file = r.before
            /\ (Resolved(r) /\ r.cmd = "reset" /\ r.path # NoPath /\ untracked)
                   => /\ r.trace = <<"load", "op", "save">>
                      /\ r.stage # "op"
                      /\ r.err = "" => (exit_status(r.err) = 0 /\ file.doc = LoadedDoc(r))
            /\ (Resolved(r) /\ r.cmd = "add" /\ r.err # "PathNotFound")
                   => /\ r.trace = <<"load", "op", "save">>
                      /\ r.stage # "op"
                      /\ r.err = "" => (/\ exit_status(r.err) = 0
                                        /\ KeyOf(r) \in Keys(file.doc)
                                        /\ r.added = {KeyOf(r)} \ Keys(LoadedDoc(r)))

\* reset --path of a path that is not tracked ran where there was no file: the run
\* ended without error and wrote the file
C35_Witness ==
    \E p \in DOMAIN procs :
        /\ procs[p].pc = "exited" /\ procs[p].err = "" /\ Wrote(p)
        /\ procs[p].cmd = "reset" /\ procs[p].path = K2
        /\ procs[p].before = AbsentFile
        /\ file.kind = "valid" /\ file.doc = {}

(***************************************************************************)
(* Locality of the operations, and who writes the tags.                    *)
(***************************************************************************)
C36_Step ==
    /\ (last'.op \in {"add", "update", "access", "reset", "delete"}) =>
           \A k \in DOMAIN repos \ {last'.key} :
               k \in DOMAIN repos' /\ repos'[k] = repos[k]
    /\ (last'.op \in {"access", "reset", "reset_all", "search"}) =>
           /\ DOMAIN repos' = DOMAIN repos
           /\ \A k \in DOMAIN repos : repos'[k].tags = repos[k].tags
    /\ \A k \in DOMAIN repos' :
           (k \notin DOMAIN repos \/ repos'[k].tags # Before(k).tags)
               => /\ last'.op \in {"add", "update"}
                  /\ last'.key = k /\ last'.err = ""
    /\ (last'.op \in {"add", "update"} /\ last'.err = "" /\ last'.key \in DOMAIN repos')
           => repos'[last'.key].tags = last'.tags

\* C36: add, update, record_access, reset of one path and delete leave the tags and
\* the access_times of every other tracked path as they were; record_access, reset
\* (of one path or of all) and search_by_tag change no record's tags; tags change
\* only by add and update, which store exactly the list given, in its order and
\* with its repetitions.
C36_Local == [][C36_Step]_vars

\* an update stored a list in which one tag occurs twice, beside another record
\* that has a different list and two accesses
C36_Witness ==
    /\ last.op = "update" /\ last.err = "" /\ last.ret = TRUE /\ last.key = K1
    /\ repos[K1].tags = <<tag_rust, tag_cli, tag_rust>>
    /\ K2 \in DOMAIN repos /\ repos[K2].tags = <<tag_cli>>
    /\ Len(repos[K2].access_times) = 2

(***************************************************************************)
(* Deleting and adding again.                                              *)
(***************************************************************************)
C37_ReaddStep ==
    (/\ last.op = "delete" /\ last.err = "" /\ last.ret = TRUE
     /\ last'.op = "add" /\ last'.key = last.key
     /\ OnDisk(last.key))
        => /\ last'.err = "" /\ last'.ret = TRUE
           /\ repos'[last.key] = [tags |-> last'.tags, access_times |-> <<now>>]
           /\ Len(repos'[last.key].access_times) = 1
           /\ last.before.tracked /\ ~last'.before.tracked

\* C37: after delete(p) returned true, an add(p, t) that follows on a directory that
\* exists returns true again, and the new record has exactly one timestamp and the
\* tags t, whatever tags and history the deleted record had.
C37_NoHistoryAfterDelete == [][C37_ReaddStep]_vars

\* the first repo, tracked from the start with one tag and two accesses, was added
\* as new: it was deleted, and its record has the tags given and one access
C37_Witness ==
    /\ last.op = "add" /\ last.err = "" /\ last.ret = TRUE /\ last.key = K1
    /\ ~last.before.tracked
    /\ repos[K1] = [tags |-> <<tag_rust, tag_cli, tag_rust>>, access_times |-> <<now>>]
    /\ hist[K1] = <<now>>

(***************************************************************************)
(* mangit init.                                                            *)
(***************************************************************************)
C38_InitStep ==
    \A p \in DOMAIN procs :
        (/\ procs[p].pc = "saving" /\ procs[p].cmd = "init"
         /\ procs'[p].pc = "exited" /\ procs'[p].err = "")
            => LET r == procs[p]
               IN  /\ r.trace = <<"load">> /\ procs'[p].trace = <<"load", "save">>
                   /\ file'.kind = "valid"
                   /\ r.before.kind = "absent" => file'.doc = {}
                   /\ file'.doc = {e \in r.before.doc : e.path \in r.kept}
                   /\ (r.kept = {k \in Keys(r.before.doc) : OnDisk(k)})
                          => save(Storage_new(file', TRUE).repos, EmptyMap) = file'

\* C38: init is a load followed by a save. Where there is no file it creates one
\* that holds the empty index; where there is one it writes back exactly the
\* records whose directory existed at the load, tags and access_times as they
\* were; a second init with the directories unchanged writes the same file again.
C38_Init == [][C38_InitStep]_vars

\* init ran on a file of two records, the directory of one being gone, and wrote
\* the other record back as it was
C38_Witness ==
    \E p \in DOMAIN procs :
        /\ procs[p].pc = "exited" /\ procs[p].err = "" /\ Wrote(p)
        /\ procs[p].cmd = "init" /\ procs[p].trace = <<"load", "save">>
        /\ Keys(procs[p].before.doc) = Dirs
        /\ Keys(file.doc) = {K2}
        /\ file.doc \subseteq procs[p].before.doc
        /\ \E e \in file.doc : Len(e.access_times) = 2

(***************************************************************************)
(* Histories the file holds that record_access would not have left.        *)
(***************************************************************************)
Min(a, b) == IF a < b THEN a ELSE b

C39_Step ==
    /\ (last'.op = "load" /\ last'.err = "" /\ file.kind = "valid") =>
           \A e \in file.doc :
               OnDisk(e.path) => /\ e.path \in DOMAIN repos'
                                 /\ repos'[e.path].access_times = e.access_times
    /\ (last'.op \in {"access", "update"} /\ last'.err = "" /\ last'.ret = TRUE) =>
           Len(repos'[last'.key].access_times)
               = Min(Len(repos[last'.key].access_times) + 1, MaxAccessTimes)
    /\ (last'.op = "search") =>
           \A k \in DOMAIN repos :
               Len(repos'[k].access_times)
                   = IF Matches(repos[k], last'.tags[1])
                     THEN Min(Len(repos[k].access_times) + 1, MaxAccessTimes)
                     ELSE Len(repos[k].access_times)
    /\ (last'.op \in {"reset", "reset_all"} /\ last'.err = "") =>
           \A k \in DOMAIN repos :
               (last'.op = "reset_all" \/ k = last'.key)
                   => Len(repos'[k].access_times) = 1
    /\ (last'.op \in {"save", "cleanup", "delete"}) =>
           \A k \in DOMAIN repos \cap DOMAIN repos' :
               repos'[k].access_times = repos[k].access_times

\* C39: the load does not check the shape of a history: a record the file holds
\* with more than 10 timestamps, or with none, comes back as stored. The cap holds
\* again only once the record is written to: after one record_access, update or
\* matching search on a record of n timestamps it has min(n + 1, 10), after a reset
\* it has 1.
C39_LoadKeepsShape == [][C39_Step]_vars

\* a record of eleven timestamps, which only a load can have handed out, was
\* accessed and has ten
C39_Witness ==
    /\ last.op = "access" /\ last.err = "" /\ last.ret = TRUE
    /\ last.before.len = MaxAccessTimes + 1
    /\ Len(repos[last.key].access_times) = MaxAccessTimes

====
